---- MODULE Spec2Model ----
(***************************************************************************)
(* Ephemeral conversation-context cache with per-user display-name          *)
(* resolution (messageFetch.ts): getUserDisplayName,                       *)
(* fetchConversationFromDiscord and ephemeralFetchConversation, run as      *)
(* cooperatively scheduled async tasks that interleave at their awaits;    *)
(* and the bot manager around it (discordManager.ts, kindroidAPI.ts,       *)
(* index.js): configuration, login, the message handlers, shutdown.        *)
(***************************************************************************)
EXTENDS Integers, Sequences, FiniteSets, TLC

\* ------------------------------------------------------------------ bounds
\* Date.now() is counted in abstract ticks 0..MaxClock.
MaxClock == 2
\* DISPLAY_NAME_CACHE_DURATION (60 * 60 * 1000 ms in the source) in ticks.
DISPLAY_NAME_CACHE_DURATION == 2
\* The size both caches must exceed before an insert sweeps (1000 in the
\* source), scaled to the number of keys of the model.
SWEEP_THRESHOLD == 1

\* ---------------------------------------------------------------- universe
Tasks == {"t1", "t2", "t3"}
\* The tasks that run in each specification.
EphemeralTasks == {"t1"}
FetchTasks == {"t1"}
\* The bot instances of the process, and the bot whose messageCreate handler
\* each task runs in (the handler closes over its botConfig).
Bots == {"bot1", "bot2"}
NoBot == "none"
BotOf(t) == IF t = "t1" THEN "bot1" ELSE "bot2"
Guilds == {"g1", "g2"}
Users == {"u1", "u2"}
NoGuild == "none"
NoName == "null"

\* channel.id of the channels the handlers see; "d1" is a DMChannel.
Channels == {"c1", "c2", "d1"}

\* msg.guildId of the messages of a channel (null in a direct message).
GuildOf(c) == CASE c = "c1" -> "g1" [] c = "c2" -> "g2" [] OTHER -> NoGuild

\* msg.author.username: the bare handle, always present.
Username(u) == IF u = "u1" THEN "handle1" ELSE "handle2"

\* msg.author.globalName: null for u2.
GlobalName(u) == IF u = "u1" THEN "Global1" ELSE NoName

\* member.nickname of a member whose nickname is set.
Nickname(g, u) == CASE g = "g1" /\ u = "u1" -> "Nick-g1-u1"
                    [] g = "g1" /\ u = "u2" -> "Nick-g1-u2"
                    [] g = "g2" /\ u = "u1" -> "Nick-g2-u1"
                    [] OTHER -> "Nick-g2-u2"

\* The values cacheDurationMs and limit take at the call sites of the model.
CacheDurations == {1, 2}
Limits == {1, 2}
\* The channels and limits of the direct callers of fetchConversationFromDiscord.
FetchChannels == {"c1", "d1"}
FetchLimits == {2, 3}
\* The channels whose handlers call ephemeralFetchConversation.
EphemeralChannels == {"c2", "d1"}

\* Two handlers in flight at once: bot1 and bot2 both sit in the guild
\* channel c2, and a message there triggers the handler of each.
RaceTasks == {"t1", "t2"}
RaceChannels(t) == {"c2"}
RaceLimits == {1}
RaceDurations == {1}
\* The calls of the runs in which entries outlive their windows.
SweepChannels == {"c2", "d1"}
SweepLimits == {1}
SweepDurations == {1}
\* The direct callers that resolve one user in two guilds and in a direct message.
KeyChannels == {"c1", "c2", "d1"}
KeyLimits == {1}

\* The messages a channel holds upstream: discord.js Message objects.
\* In c1, m1 and m2 share a createdTimestamp and m3 is older than both.
Msg(c, k, u, ts) ==
  [id |-> k, channelId |-> c, guildId |-> GuildOf(c), author |-> u,
   createdTimestamp |-> ts, content |-> k]

ChannelMessages(c) ==
  CASE c = "c1" -> {Msg(c, "c1-m1", "u1", 2), Msg(c, "c1-m2", "u2", 2), Msg(c, "c1-m3", "u1", 1)}
    [] c = "c2" -> {Msg(c, "c2-m1", "u1", 1)}
    [] OTHER    -> {Msg(c, "d1-m1", "u1", 1), Msg(c, "d1-m2", "u1", 2)}

\* Sequences without repetition over S of length at most n.
RECURSIVE SeqsNoRep(_, _)
SeqsNoRep(S, n) ==
  IF n = 0 \/ S = {} THEN {<< >>}
  ELSE {<< >>} \cup UNION {{<<x>> \o s : s \in SeqsNoRep(S \ {x}, n - 1)} : x \in S}

Min(a, b) == IF a < b THEN a ELSE b

\* What channel.messages.fetch({limit}) may resolve to: up to limit of the
\* channel's messages, in any order.
Batches(c, limit) ==
  SeqsNoRep(ChannelMessages(c), Min(limit, Cardinality(ChannelMessages(c))))

\* ------------------------------------------------------------------- state
VARIABLES
  clock,             \* Date.now()
  guildsCache,       \* msg.client.guilds.cache: the guilds the client holds
  channelCache,      \* Map<string, CacheEntry>
  displayNameCache,  \* Map<string, DisplayNameCacheEntry>
  task,              \* the async invocations of ephemeralFetchConversation
  storedBy,          \* per channel, the bot whose handler's fetch stored the entry
  readAt,            \* per channel, when the channel.messages.fetch behind the entry resolved
  unsweptAt,         \* per channel, the lastFetchTime last stored, kept when a sweep deletes the entry
  proc,              \* where main() and the signal handlers stand
  activeBots,        \* Map<string, Client>: the ids of the logged-in clients
  dmConversationCounts, \* Map<string, DMConversationCount>
  initPromises,      \* per bot, how createDiscordClientForBot(config).catch() settled
  successfulBots,    \* what initializeAllBots returned
  shutdownPromises,  \* per bot, how the client.destroy() of shutdownAllBots settled
  handler,           \* the messageCreate handler invocation each task runs in
  aiCall,            \* a call of callKindroidAI: its arguments, the HTTP outcome, its result
  env,               \* process.env: AI_ID_n and BOT_TOKEN_n per index, and the two Kindroid variables
  botConfigs,        \* what loadBotConfigs returned
  envExit            \* whether validateEnv ran and called process.exit(1)

\* What main() starts from, and the inference call.
startVars == <<aiCall, env, botConfigs, envExit>>

\* The state of the bot manager.
mgrVars == <<proc, activeBots, dmConversationCounts, initPromises, successfulBots,
             shutdownPromises, handler, startVars>>

vars == <<clock, guildsCache, channelCache, displayNameCache, task, storedBy, readAt,
          unsweptAt, mgrVars>>

NoEntry == [absent |-> TRUE]
NoResult == << >>

\* Keys of displayNameCache: `${guildId}:${userId}` or userId.
NameKeys == (Guilds \X Users) \cup {<<u>> : u \in Users}

\* names[i] of a message not yet resolved in the running pass.
Unresolved == [via |-> "unresolved", name |-> NoName]

\* A task: one invocation with its locals (channel, limit, ttl = cacheDurationMs,
\* now, fetched, sorted, the passes' cursor, pending lookups and names, result)
\* and what it did to its collaborators: cachedAt is the lastFetchTime of the
\* entry the call found (NoTime if none), fetchOutcome how channel.messages.fetch
\* settled, fetchedAt when it resolved (while the call is in flight), lookupFailed
\* whether a guild.members.fetch threw, historyFetches and memberLookups the
\* calls made to channel.messages.fetch and guild.members.fetch.
NoTime == -1

IdleTask ==
  [pc |-> "idle", entry |-> "none", channel |-> "c1", limit |-> 2, ttl |-> 1, now |-> 0,
   fetched |-> << >>, sorted |-> << >>, cursor |-> 1, pending |-> {},
   names |-> << >>, result |-> NoResult,
   cachedAt |-> NoTime, fetchOutcome |-> "none", fetchedAt |-> NoTime,
   lookupFailed |-> FALSE, historyFetches |-> 0, memberLookups |-> 0]

\* Keys of dmConversationCounts: `${botConfig.id}-${userId}`.
DmKeys == Bots \X Users

\* The characters message.content and client.user.username are made of.
Chars == {"B", "O", "b", "o", "h", "i"}

\* client.user.username of every bot: "Bob".
BotUsername == <<"B", "o", "b">>

\* message.content of the messages that arrive: "hi", "hi bob" without the
\* space, "BOB", "Bo".
Contents == {<<"h", "i">>, <<"h", "i", "b", "o", "b">>, <<"B", "O", "B">>, <<"B", "o">>}

\* botConfig.appLink: bot2 has one, bot1 has none (null).
HasAppLink(b) == b = "bot2"

\* A message no handler has: the locals of an invocation that has not started.
NoMessage == [author |-> "u1", bot |-> FALSE, channel |-> "c1", mentioned |-> FALSE,
              content |-> << >>]

\* A handler invocation: the message it was called with, the locals newCount
\* and conversationArray, and what it did: the calls it issued to sendTyping,
\* ephemeralFetchConversation and callKindroidAI, and, in order, what it
\* delivered to the conversation ("reply", "cta", "error").
IdleHandler ==
  [pc |-> "idle", message |-> NoMessage, dm |-> FALSE, newCount |-> 0,
   conversation |-> << >>, typings |-> 0, fetches |-> 0, inferences |-> 0,
   sent |-> << >>, failed |-> "none"]

\* process.env of a process that runs bot1 and bot2, and the configs loaded
\* from it. A variable is "unset", "empty" (set to the empty string) or "set".
MaxIndex == 3
RunningEnv ==
  [url |-> "set", key |-> "set",
   aiId |-> [n \in 1..MaxIndex |-> IF n <= 2 THEN "set" ELSE "unset"],
   botToken |-> [n \in 1..MaxIndex |-> IF n <= 2 THEN "set" ELSE "unset"]]
RunningConfigs == <<[id |-> <<"bot", 1>>, index |-> 1], [id |-> <<"bot", 2>>, index |-> 2]>>

\* No call of callKindroidAI under study.
NoCall == [conversation |-> << >>, response |-> [kind |-> "none"], result |-> [type |-> "none"]]

\* main() validated the environment and loaded the configs of bot1 and bot2.
InitStarted ==
  /\ aiCall = NoCall
  /\ env = RunningEnv
  /\ botConfigs = RunningConfigs
  /\ envExit = "passed"

\* The message caches and the tasks of a process that has served nothing yet.
InitFetcher ==
  /\ clock = 0
  /\ channelCache = [c \in Channels |-> NoEntry]
  /\ displayNameCache = [k \in NameKeys |-> NoEntry]
  /\ task = [t \in Tasks |-> IdleTask]
  /\ storedBy = [c \in Channels |-> NoBot]
  /\ readAt = [c \in Channels |-> NoTime]
  /\ unsweptAt = [c \in Channels |-> NoTime]

\* The manager once every configured bot is logged in and nothing has arrived.
InitRunning ==
  /\ proc = "running"
  /\ activeBots = Bots
  /\ dmConversationCounts = [k \in DmKeys |-> NoEntry]
  /\ initPromises = [b \in Bots |-> "client"]
  /\ successfulBots = <<"bot1", "bot2">>
  /\ shutdownPromises = [b \in Bots |-> "none"]
  /\ handler = [t \in Tasks |-> IdleHandler]

Init ==
  /\ InitFetcher
  /\ guildsCache \in {Guilds, {}}
  /\ InitRunning
  /\ InitStarted

\* ------------------------------------------------------- pure functions
\* Variant: an unstable sort that puts m in front of its equals.
RECURSIVE InsertBeforeEqual(_, _)
InsertBeforeEqual(s, m) ==
  IF s = << >> THEN <<m>>
  ELSE IF Head(s).createdTimestamp - m.createdTimestamp >= 0
       THEN <<m>> \o s
       ELSE <<Head(s)>> \o InsertBeforeEqual(Tail(s), m)

\* Array.prototype.sort with (a, b) => a.createdTimestamp - b.createdTimestamp:
\* a stable sort, so m goes behind every element that does not compare greater.
RECURSIVE InsertByTimestamp(_, _)
InsertByTimestamp(s, m) ==
  IF s = << >> THEN <<m>>
  ELSE IF Head(s).createdTimestamp - m.createdTimestamp > 0
       THEN <<m>> \o s
       ELSE <<Head(s)>> \o InsertByTimestamp(Tail(s), m)

RECURSIVE SortByTimestamp(_)
SortByTimestamp(batch) ==
  IF batch = << >> THEN << >>
  ELSE InsertByTimestamp(SortByTimestamp(SubSeq(batch, 1, Len(batch) - 1)),
                         batch[Len(batch)])

\* msg.createdAt.toISOString(): a fixed-width digit string, most significant first.
ToISOString(ts) == <<ts \div 10, ts % 10>>

\* Variant: the key leaves the guild out.
CacheKeyUserOnly(msg) == <<msg.author>>

\* cacheKey of getUserDisplayName.
CacheKey(msg) ==
  IF msg.guildId # NoGuild THEN <<msg.guildId, msg.author>> ELSE <<msg.author>>

\* Variant: the freshness window one tick short.
FreshShort(cached, now, ttl) == cached # NoEntry /\ now - cached.lastFetchTime + 1 < ttl

\* Variant: the freshness window closed at its end (<= for <).
FreshInclusive(cached, now, ttl) == cached # NoEntry /\ now - cached.lastFetchTime <= ttl

\* cached && now - cached.lastFetchTime < ttl
Fresh(cached, now, ttl) == cached # NoEntry /\ now - cached.lastFetchTime < ttl

\* Variant: the fallback skips the global name.
HandleOnly(u) == Username(u)

\* Variant: the global name is used whether or not the author has one.
GlobalNameOnly(u) == GlobalName(u)

\* msg.author.globalName || msg.author.username
GlobalOrHandle(u) == IF GlobalName(u) # NoName THEN GlobalName(u) ELSE Username(u)

\* Variant: the global name is preferred to the nickname.
MemberNameGlobalFirst(resp, msg) ==
  IF resp = "fail" THEN GlobalOrHandle(msg.author)
  ELSE IF GlobalName(msg.author) # NoName THEN GlobalName(msg.author)
  ELSE IF resp = "nick" THEN Nickname(msg.guildId, msg.author)
  ELSE Username(msg.author)

\* The name getUserDisplayName derives from what guild.members.fetch did:
\* it resolved to a member with a nickname ("nick"), to a member without one
\* ("nonick"), or it threw ("fail").
MemberName(resp, msg) ==
  IF resp = "nick" THEN Nickname(msg.guildId, msg.author)
  ELSE IF resp = "nonick"
       THEN (IF GlobalName(msg.author) # NoName THEN GlobalName(msg.author)
             ELSE Username(msg.author))
       ELSE GlobalOrHandle(msg.author)

MemberResponses == {"nick", "nonick", "fail"}

\* cache.size
Size(cache) == Cardinality({k \in DOMAIN cache : cache[k] # NoEntry})

\* Variant: the sweep spares the entries one tick past the window.
SweepLate(cache, now, ttl) ==
  [k \in DOMAIN cache |->
     IF cache[k] # NoEntry /\ cache[k].lastFetchTime < now - ttl - 1 THEN NoEntry
     ELSE cache[k]]

\* Variant: the sweep deletes every entry written before now.
SweepAllOlder(cache, now, ttl) ==
  [k \in DOMAIN cache |->
     IF cache[k] # NoEntry /\ cache[k].lastFetchTime < now THEN NoEntry
     ELSE cache[k]]

\* The sweep: delete every entry whose lastFetchTime < now - ttl.
Sweep(cache, now, ttl) ==
  [k \in DOMAIN cache |->
     IF cache[k] # NoEntry /\ cache[k].lastFetchTime < now - ttl THEN NoEntry
     ELSE cache[k]]

\* cache.set(key, entry), then the sweep when cache.size exceeds the threshold.
SetAndSweep(cache, key, entry, now, ttl) ==
  LET written == [cache EXCEPT ![key] = entry]
  IN IF Size(written) > SWEEP_THRESHOLD THEN Sweep(written, now, ttl) ELSE written

\* Array.from(new Set(sorted.map(msg => msg.author.id))) with, for each user,
\* the index sorted.find gives: the first message of each author, in order.
FirstOfAuthor(sorted) ==
  {i \in 1..Len(sorted) : \A j \in 1..(i - 1) : sorted[j].author # sorted[i].author}

RECURSIVE Ascending(_)
Ascending(S) ==
  IF S = {} THEN << >>
  ELSE LET m == CHOOSE x \in S : \A y \in S : x <= y
       IN <<m>> \o Ascending(S \ {m})

\* The messages a pass hands to getUserDisplayName, in call order.
Scan(tk) ==
  IF tk.pc = "prewarm" THEN Ascending(FirstOfAuthor(tk.sorted))
  ELSE IF tk.pc = "format" THEN Ascending(1..Len(tk.sorted))
  ELSE << >>

\* A task that holds the thread: it has synchronous code to run before its
\* next await, so no other task's continuation can run.
Running(tk) ==
  /\ tk.pc \in {"prewarm", "format"}
  /\ (tk.cursor <= Len(Scan(tk)) \/ tk.pending = {})

NoneRunning == \A t \in Tasks : ~Running(task[t])

\* ----------------------------------------------------------------- actions
\* Date.now() advances.
Tick ==
  /\ clock < MaxClock
  /\ clock' = clock + 1
  /\ UNCHANGED <<guildsCache, mgrVars, channelCache, displayNameCache, task, storedBy, readAt, unsweptAt>>

\* Variant: a call that finds another call's fetch of the channel in flight
\* waits for it instead of fetching.
CallEphemeralSingleFlight(t, c, limit, ttl) ==
  /\ task[t].pc \in {"idle", "done", "failed"}
  /\ NoneRunning
  /\ \A o \in Tasks \ {t} :
        ~(task[o].entry = "ephemeral" /\ task[o].channel = c
            /\ task[o].pc \in {"fetching", "prewarm", "format"})
  /\ LET cached == channelCache[c]
         base == [IdleTask EXCEPT !.entry = "ephemeral", !.channel = c,
                                  !.limit = limit, !.ttl = ttl, !.now = clock,
                                  !.cachedAt = IF cached = NoEntry THEN NoTime
                                               ELSE cached.lastFetchTime]
     IN IF Fresh(cached, clock, ttl)
        THEN task' = [task EXCEPT ![t] =
                        [base EXCEPT !.pc = "done", !.result = cached.messages]]
        ELSE task' = [task EXCEPT ![t] =
                        [base EXCEPT !.pc = "fetching", !.historyFetches = 1]]
  /\ UNCHANGED <<clock, guildsCache, mgrVars, channelCache, displayNameCache, storedBy, readAt, unsweptAt>>

\* Variant: the cache is read without the channel id, so the call takes the
\* freshest entry of any channel.
CallEphemeralAnyChannel(t, c, limit, ttl) ==
  /\ task[t].pc \in {"idle", "done", "failed"}
  /\ NoneRunning
  /\ LET held == {k \in Channels : channelCache[k] # NoEntry}
         key == IF held = {} THEN c
                ELSE CHOOSE k \in held :
                       \A o \in held :
                         channelCache[o].lastFetchTime <= channelCache[k].lastFetchTime
         cached == channelCache[key]
         base == [IdleTask EXCEPT !.entry = "ephemeral", !.channel = c,
                                  !.limit = limit, !.ttl = ttl, !.now = clock,
                                  !.cachedAt = IF cached = NoEntry THEN NoTime
                                               ELSE cached.lastFetchTime]
     IN IF Fresh(cached, clock, ttl)
        THEN task' = [task EXCEPT ![t] =
                        [base EXCEPT !.pc = "done", !.result = cached.messages]]
        ELSE task' = [task EXCEPT ![t] =
                        [base EXCEPT !.pc = "fetching", !.historyFetches = 1]]
  /\ UNCHANGED <<clock, guildsCache, mgrVars, channelCache, displayNameCache, storedBy, readAt, unsweptAt>>

\* Variant: a call sees only the entries its own bot's handlers stored.
CallEphemeralPerBot(t, c, limit, ttl) ==
  /\ task[t].pc \in {"idle", "done", "failed"}
  /\ NoneRunning
  /\ LET cached == IF storedBy[c] = BotOf(t) THEN channelCache[c] ELSE NoEntry
         base == [IdleTask EXCEPT !.entry = "ephemeral", !.channel = c,
                                  !.limit = limit, !.ttl = ttl, !.now = clock,
                                  !.cachedAt = IF cached = NoEntry THEN NoTime
                                               ELSE cached.lastFetchTime]
     IN IF Fresh(cached, clock, ttl)
        THEN task' = [task EXCEPT ![t] =
                        [base EXCEPT !.pc = "done", !.result = cached.messages]]
        ELSE task' = [task EXCEPT ![t] =
                        [base EXCEPT !.pc = "fetching", !.historyFetches = 1]]
  /\ UNCHANGED <<clock, guildsCache, mgrVars, channelCache, displayNameCache, storedBy, readAt, unsweptAt>>

\* ephemeralFetchConversation(channel, limit, cacheDurationMs) up to its
\* first await: the fresh-entry return, or the start of the upstream fetch.
\* What the caller does in the same turn is the caller's.
EphemeralCall(t, c, limit, ttl) ==
  /\ task[t].pc \in {"idle", "done", "failed"}
  /\ NoneRunning
  /\ LET cached == channelCache[c]
         base == [IdleTask EXCEPT !.entry = "ephemeral", !.channel = c,
                                  !.limit = limit, !.ttl = ttl, !.now = clock,
                                  !.cachedAt = IF cached = NoEntry THEN NoTime
                                               ELSE cached.lastFetchTime]
     IN IF Fresh(cached, clock, ttl)
        THEN task' = [task EXCEPT ![t] =
                        [base EXCEPT !.pc = "done", !.result = cached.messages]]
        ELSE task' = [task EXCEPT ![t] =
                        [base EXCEPT !.pc = "fetching", !.historyFetches = 1]]
  /\ UNCHANGED <<clock, guildsCache, channelCache, displayNameCache, storedBy, readAt, unsweptAt>>

\* The call made by a caller that is no message handler.
CallEphemeral(t, c, limit, ttl) ==
  /\ EphemeralCall(t, c, limit, ttl)
  /\ UNCHANGED mgrVars

\* fetchConversationFromDiscord(channel, limit) called on its own, up to its
\* first await.
CallFetch(t, c, limit) ==
  /\ task[t].pc \in {"idle", "done", "failed"}
  /\ NoneRunning
  /\ task' = [task EXCEPT ![t] =
                [IdleTask EXCEPT !.entry = "direct", !.channel = c, !.limit = limit,
                                 !.pc = "fetching", !.historyFetches = 1]]
  /\ UNCHANGED <<clock, guildsCache, mgrVars, channelCache, displayNameCache, storedBy, readAt, unsweptAt>>

\* Variant: the failure is stored as an empty conversation.
FetchFailCached(t) ==
  /\ task[t].pc = "fetching"
  /\ NoneRunning
  /\ task' = [task EXCEPT ![t].pc = "failed", ![t].fetchOutcome = "rejected"]
  /\ channelCache' = [channelCache EXCEPT ![task[t].channel] =
                        [lastFetchTime |-> task[t].now, messages |-> << >>]]
  /\ UNCHANGED <<clock, guildsCache, mgrVars, displayNameCache, storedBy, readAt, unsweptAt>>

\* Variant: the failure is swallowed and an empty conversation returned.
FetchFailSwallowed(t) ==
  /\ task[t].pc = "fetching"
  /\ NoneRunning
  /\ task' = [task EXCEPT ![t].pc = "done", ![t].fetchOutcome = "rejected"]
  /\ UNCHANGED <<clock, guildsCache, mgrVars, channelCache, displayNameCache, storedBy, readAt, unsweptAt>>

\* Variant: the failing call sweeps the conversation cache before it rethrows.
FetchFailSweeping(t) ==
  /\ task[t].pc = "fetching"
  /\ NoneRunning
  /\ task' = [task EXCEPT ![t].pc = "failed", ![t].fetchOutcome = "rejected"]
  /\ channelCache' = Sweep(channelCache, task[t].now, task[t].ttl)
  /\ UNCHANGED <<clock, guildsCache, mgrVars, displayNameCache, storedBy, readAt, unsweptAt>>

\* channel.messages.fetch rejects: fetchConversationFromDiscord rethrows and
\* ephemeralFetchConversation lets the error through.
FetchFail(t) ==
  /\ task[t].pc = "fetching"
  /\ NoneRunning
  /\ task' = [task EXCEPT ![t].pc = "failed", ![t].fetchOutcome = "rejected"]
  /\ UNCHANGED <<clock, guildsCache, mgrVars, channelCache, displayNameCache, storedBy, readAt, unsweptAt>>

\* channel.messages.fetch resolves: sort, then the pre-fetch pass starts.
FetchOk(t, batch) ==
  /\ task[t].pc = "fetching"
  /\ NoneRunning
  /\ task' = [task EXCEPT ![t].pc = "prewarm",
                          ![t].fetchOutcome = "resolved",
                          ![t].fetchedAt = clock,
                          ![t].fetched = batch,
                          ![t].sorted = SortByTimestamp(batch),
                          ![t].cursor = 1,
                          ![t].pending = {},
                          ![t].names = [i \in 1..Len(batch) |-> Unresolved]]
  /\ UNCHANGED <<clock, guildsCache, mgrVars, channelCache, displayNameCache, storedBy, readAt, unsweptAt>>

\* getUserDisplayName(msg) up to its first await, for the next message of the pass.
ResolveStart(t) ==
  LET tk == task[t]
      scan == Scan(tk)
  IN /\ tk.pc \in {"prewarm", "format"}
     /\ tk.cursor <= Len(scan)
     /\ LET i == scan[tk.cursor]
            msg == tk.sorted[i]
            key == CacheKey(msg)
            cached == displayNameCache[key]
        IN IF Fresh(cached, clock, DISPLAY_NAME_CACHE_DURATION)
           THEN /\ task' = [task EXCEPT ![t].cursor = @ + 1,
                              ![t].names[i] = [via |-> "hit", name |-> cached.displayName]]
                /\ UNCHANGED displayNameCache
           ELSE IF msg.guildId # NoGuild /\ msg.guildId \in guildsCache
           THEN /\ task' = [task EXCEPT ![t].cursor = @ + 1,
                              ![t].pending = @ \cup {[idx |-> i, now |-> clock]},
                              ![t].memberLookups = @ + 1]
                /\ UNCHANGED displayNameCache
           ELSE /\ task' = [task EXCEPT ![t].cursor = @ + 1,
                              ![t].names[i] =
                                 [via |-> IF msg.guildId # NoGuild THEN "uncached" ELSE "direct",
                                  name |-> GlobalOrHandle(msg.author)]]
                /\ displayNameCache' =
                     SetAndSweep(displayNameCache, key,
                                 [displayName |-> GlobalOrHandle(msg.author),
                                  lastFetchTime |-> clock],
                                 clock, DISPLAY_NAME_CACHE_DURATION)
     /\ UNCHANGED <<clock, guildsCache, mgrVars, channelCache, storedBy, readAt, unsweptAt>>

\* Variant: without the inner try/catch, a lookup that throws fails the fetch.
MemberFetchThrowing(t, p, resp) ==
  LET tk == task[t]
      msg == tk.sorted[p.idx]
      name == MemberName(resp, msg)
  IN /\ tk.pc \in {"prewarm", "format"}
     /\ tk.cursor > Len(Scan(tk))
     /\ p \in tk.pending
     /\ NoneRunning
     /\ IF resp = "fail"
        THEN /\ task' = [task EXCEPT ![t].pc = "failed", ![t].pending = {},
                                     ![t].lookupFailed = TRUE]
             /\ UNCHANGED displayNameCache
        ELSE /\ task' = [task EXCEPT ![t].pending = @ \ {p},
                                     ![t].names[p.idx] = [via |-> resp, name |-> name]]
             /\ displayNameCache' =
                  SetAndSweep(displayNameCache, CacheKey(msg),
                              [displayName |-> name, lastFetchTime |-> p.now],
                              p.now, DISPLAY_NAME_CACHE_DURATION)
     /\ UNCHANGED <<clock, guildsCache, mgrVars, channelCache, storedBy, readAt, unsweptAt>>

\* Variant: the fallback after a lookup that threw is returned but not cached.
MemberFetchFallbackUncached(t, p, resp) ==
  LET tk == task[t]
      msg == tk.sorted[p.idx]
      name == MemberName(resp, msg)
  IN /\ tk.pc \in {"prewarm", "format"}
     /\ tk.cursor > Len(Scan(tk))
     /\ p \in tk.pending
     /\ NoneRunning
     /\ task' = [task EXCEPT ![t].pending = @ \ {p},
                             ![t].lookupFailed = @ \/ resp = "fail",
                             ![t].names[p.idx] = [via |-> resp, name |-> name]]
     /\ displayNameCache' =
          IF resp = "fail" THEN displayNameCache
          ELSE SetAndSweep(displayNameCache, CacheKey(msg),
                           [displayName |-> name, lastFetchTime |-> p.now],
                           p.now, DISPLAY_NAME_CACHE_DURATION)
     /\ UNCHANGED <<clock, guildsCache, mgrVars, channelCache, storedBy, readAt, unsweptAt>>

\* guild.members.fetch settles for one suspended getUserDisplayName.
MemberFetch(t, p, resp) ==
  LET tk == task[t]
      msg == tk.sorted[p.idx]
      name == MemberName(resp, msg)
  IN /\ tk.pc \in {"prewarm", "format"}
     /\ tk.cursor > Len(Scan(tk))
     /\ p \in tk.pending
     /\ NoneRunning
     /\ task' = [task EXCEPT ![t].pending = @ \ {p},
                             ![t].lookupFailed = @ \/ resp = "fail",
                             ![t].names[p.idx] = [via |-> resp, name |-> name]]
     /\ displayNameCache' =
          SetAndSweep(displayNameCache, CacheKey(msg),
                      [displayName |-> name, lastFetchTime |-> p.now],
                      p.now, DISPLAY_NAME_CACHE_DURATION)
     /\ UNCHANGED <<clock, guildsCache, mgrVars, channelCache, storedBy, readAt, unsweptAt>>

\* Promise.all(displayNamePromises) resolved: the format pass starts.
StartFormat(t) ==
  /\ task[t].pc = "prewarm"
  /\ task[t].cursor > Len(Scan(task[t]))
  /\ task[t].pending = {}
  /\ task' = [task EXCEPT ![t].pc = "format",
                          ![t].cursor = 1,
                          ![t].names = [i \in 1..Len(task[t].sorted) |-> Unresolved]]
  /\ UNCHANGED <<clock, guildsCache, mgrVars, channelCache, displayNameCache, storedBy, readAt, unsweptAt>>

\* The ConversationMessage array the format pass builds.
Formatted(tk) ==
  [i \in 1..Len(tk.sorted) |->
     [username |-> tk.names[i].name,
      text |-> tk.sorted[i].content,
      timestamp |-> ToISOString(tk.sorted[i].createdTimestamp)]]

\* The format pass resolved: fetchConversationFromDiscord returns to its caller.
FinishFetch(t) ==
  LET tk == task[t]
  IN /\ tk.pc = "format"
     /\ tk.entry = "direct"
     /\ tk.cursor > Len(Scan(tk))
     /\ tk.pending = {}
     /\ task' = [task EXCEPT ![t].pc = "done",
                             ![t].result = Formatted(tk),
                             ![t].fetchedAt = NoTime,
                             ![t].sorted = << >>,
                             ![t].cursor = 1,
                             ![t].names = << >>]
     /\ UNCHANGED <<clock, guildsCache, mgrVars, channelCache, displayNameCache, storedBy, readAt, unsweptAt>>

\* Variant: the result is appended to the entry the channel already has.
FinishEphemeralMerging(t) ==
  LET tk == task[t]
      messages == Formatted(tk)
      old == IF channelCache[tk.channel] = NoEntry THEN << >>
             ELSE channelCache[tk.channel].messages
  IN /\ tk.pc = "format"
     /\ tk.entry = "ephemeral"
     /\ tk.cursor > Len(Scan(tk))
     /\ tk.pending = {}
     /\ task' = [task EXCEPT ![t].pc = "done",
                             ![t].result = messages,
                             ![t].fetched = << >>,
                             ![t].fetchedAt = NoTime,
                             ![t].sorted = << >>,
                             ![t].cursor = 1,
                             ![t].names = << >>]
     /\ channelCache' =
          SetAndSweep(channelCache, tk.channel,
                      [lastFetchTime |-> tk.now, messages |-> old \o messages],
                      tk.now, tk.ttl)
     /\ storedBy' = [c \in Channels |->
                       IF channelCache'[c] = NoEntry THEN NoBot
                       ELSE IF c = tk.channel THEN BotOf(t)
                       ELSE storedBy[c]]
     /\ readAt' = [c \in Channels |->
                     IF channelCache'[c] = NoEntry THEN NoTime
                     ELSE IF c = tk.channel THEN tk.fetchedAt
                     ELSE readAt[c]]
     /\ unsweptAt' = [unsweptAt EXCEPT ![tk.channel] = tk.now]
     /\ UNCHANGED <<clock, guildsCache, mgrVars, displayNameCache>>

\* Variant: the entry is stamped with the time of the store.
FinishEphemeralStampedAtStore(t) ==
  LET tk == task[t]
      messages == Formatted(tk)
  IN /\ tk.pc = "format"
     /\ tk.entry = "ephemeral"
     /\ tk.cursor > Len(Scan(tk))
     /\ tk.pending = {}
     /\ task' = [task EXCEPT ![t].pc = "done",
                             ![t].result = messages,
                             ![t].fetched = << >>,
                             ![t].fetchedAt = NoTime,
                             ![t].sorted = << >>,
                             ![t].cursor = 1,
                             ![t].names = << >>]
     /\ channelCache' =
          SetAndSweep(channelCache, tk.channel,
                      [lastFetchTime |-> clock, messages |-> messages],
                      tk.now, tk.ttl)
     /\ storedBy' = [c \in Channels |->
                       IF channelCache'[c] = NoEntry THEN NoBot
                       ELSE IF c = tk.channel THEN BotOf(t)
                       ELSE storedBy[c]]
     /\ readAt' = [c \in Channels |->
                     IF channelCache'[c] = NoEntry THEN NoTime
                     ELSE IF c = tk.channel THEN tk.fetchedAt
                     ELSE readAt[c]]
     /\ unsweptAt' = [unsweptAt EXCEPT ![tk.channel] = clock]
     /\ UNCHANGED <<clock, guildsCache, mgrVars, displayNameCache>>

\* The format pass resolved: fetchConversationFromDiscord returns and
\* ephemeralFetchConversation stores the result, sweeps and returns it.
FinishEphemeral(t) ==
  LET tk == task[t]
      messages == Formatted(tk)
  IN /\ tk.pc = "format"
     /\ tk.entry = "ephemeral"
     /\ tk.cursor > Len(Scan(tk))
     /\ tk.pending = {}
     /\ task' = [task EXCEPT ![t].pc = "done",
                             ![t].result = messages,
                             ![t].fetched = << >>,
                             ![t].fetchedAt = NoTime,
                             ![t].sorted = << >>,
                             ![t].cursor = 1,
                             ![t].names = << >>]
     /\ channelCache' =
          SetAndSweep(channelCache, tk.channel,
                      [lastFetchTime |-> tk.now, messages |-> messages],
                      tk.now, tk.ttl)
     /\ storedBy' = [c \in Channels |->
                       IF channelCache'[c] = NoEntry THEN NoBot
                       ELSE IF c = tk.channel THEN BotOf(t)
                       ELSE storedBy[c]]
     /\ readAt' = [c \in Channels |->
                     IF channelCache'[c] = NoEntry THEN NoTime
                     ELSE IF c = tk.channel THEN tk.fetchedAt
                     ELSE readAt[c]]
     /\ unsweptAt' = [unsweptAt EXCEPT ![tk.channel] = tk.now]
     /\ UNCHANGED <<clock, guildsCache, mgrVars, displayNameCache>>

\* Variant: an upstream call in flight holds the process, so nothing of a
\* task runs while another task awaits its history fetch.
FetchStepsBlocked(t) ==
  /\ \A o \in Tasks \ {t} : task[o].pc # "fetching"
  /\ \/ FetchFail(t)
     \/ \E batch \in Batches(task[t].channel, task[t].limit) : FetchOk(t, batch)
     \/ ResolveStart(t)
     \/ \E p \in task[t].pending, resp \in MemberResponses : MemberFetch(t, p, resp)
     \/ StartFormat(t)

\* The steps of a fetch in flight, whoever called it.
FetchSteps(t) ==
  \/ FetchFail(t)
  \/ \E batch \in Batches(task[t].channel, task[t].limit) : FetchOk(t, batch)
  \/ ResolveStart(t)
  \/ \E p \in task[t].pending, resp \in MemberResponses : MemberFetch(t, p, resp)
  \/ StartFormat(t)

\* Handlers calling ephemeralFetchConversation.
Next ==
  \/ Tick
  \/ \E t \in EphemeralTasks :
        \/ \E c \in EphemeralChannels, limit \in Limits, ttl \in CacheDurations :
              CallEphemeral(t, c, limit, ttl)
        \/ FetchSteps(t)
        \/ FinishEphemeral(t)

Spec == Init /\ [][Next]_vars

\* Handlers of two bots calling ephemeralFetchConversation concurrently.
NextRace ==
  \/ Tick
  \/ \E t \in RaceTasks :
        \/ \E c \in RaceChannels(t), limit \in RaceLimits, ttl \in RaceDurations :
              CallEphemeral(t, c, limit, ttl)
        \/ FetchSteps(t)
        \/ FinishEphemeral(t)

SpecRace == Init /\ [][NextRace]_vars

\* Every step of the call task t has in flight, the storing return included.
TaskSteps(t) == FetchSteps(t) \/ FinishEphemeral(t)

\* The calls of the runs in which one call may never return: t1 is triggered
\* in the guild channel c2 or in the direct-message channel d1, t2 in c2.
LiveChannels(t) == IF t = "t1" THEN {"c2", "d1"} ELSE {"c2"}
LiveLimits == {1}
LiveDurations == {1}

\* Date.now() advances from its first value.
FirstTick == clock = 0 /\ Tick

NextLive ==
  \/ FirstTick
  \/ \E t \in RaceTasks :
        \/ \E c \in LiveChannels(t), limit \in LiveLimits, ttl \in LiveDurations :
              CallEphemeral(t, c, limit, ttl)
        \/ FetchSteps(t)
        \/ FinishEphemeral(t)

\* Two handlers, the event loop fair to them: a task that holds the thread
\* runs on to its next await, and the upstream calls of t2 return; nothing
\* says the upstream calls of t1 ever do.
SpecLive ==
  /\ Init
  /\ [][NextLive]_vars
  /\ WF_vars(Running(task["t1"]) /\ TaskSteps("t1"))
  /\ SF_vars(TaskSteps("t2"))

\* Date.now() advances once more, past MaxClock, so that an entry written at
\* tick 1 can be older than DISPLAY_NAME_CACHE_DURATION.
LateTick ==
  /\ clock = MaxClock
  /\ clock' = clock + 1
  /\ UNCHANGED <<guildsCache, mgrVars, channelCache, displayNameCache, task, storedBy, readAt, unsweptAt>>

\* One handler over a clock long enough for both caches to sweep.
NextSweep ==
  \/ Tick
  \/ LateTick
  \/ \E t \in EphemeralTasks :
        \/ \E c \in SweepChannels, limit \in SweepLimits, ttl \in SweepDurations :
              CallEphemeral(t, c, limit, ttl)
        \/ FetchSteps(t)
        \/ FinishEphemeral(t)

SpecSweep == Init /\ [][NextSweep]_vars

\* Direct callers over two guild channels and a direct-message channel.
NextKeys ==
  \/ Tick
  \/ LateTick
  \/ \E t \in FetchTasks :
        \/ \E c \in KeyChannels, limit \in KeyLimits : CallFetch(t, c, limit)
        \/ FetchSteps(t)
        \/ FinishFetch(t)

SpecKeys == Init /\ [][NextKeys]_vars

\* Callers of fetchConversationFromDiscord alone.
NextFetch ==
  \/ Tick
  \/ \E t \in FetchTasks :
        \/ \E c \in FetchChannels, limit \in FetchLimits : CallFetch(t, c, limit)
        \/ FetchSteps(t)
        \/ FinishFetch(t)

SpecFetch == Init /\ [][NextFetch]_vars

\* ------------------------------------------------------------ properties
\* A step in which task t made a new call (only a call moves a settled task).
Called(t) ==
  /\ task[t].pc \in {"idle", "done", "failed"}
  /\ task'[t] # task[t]

\* The entry a call for channel c with this ttl finds is fresh at the clock.
FoundFresh(c, ttl) ==
  /\ channelCache[c] # NoEntry
  /\ clock - channelCache[c].lastFetchTime < ttl

\* The authors of a batch.
Authors(batch) == {batch[i].author : i \in 1..Len(batch)}

\* The message of a batch a ConversationMessage was made from.
Origin(batch, cm) == CHOOSE i \in 1..Len(batch) : batch[i].content = cm.text

\* result holds one ConversationMessage for every message of the batch.
Complete(batch, result) ==
  /\ Len(result) = Len(batch)
  /\ \A i \in 1..Len(batch) :
       Cardinality({j \in 1..Len(result) : result[j].text = batch[i].content}) = 1

\* C1: a call of ephemeralFetchConversation that finds an entry for channel.id
\* with now - lastFetchTime < ttl returns that entry's messages, issues no
\* upstream history fetch and writes neither cache.
C1_CacheHit ==
  [][\A t \in Tasks :
       (Called(t) /\ task'[t].entry = "ephemeral"
          /\ FoundFresh(task'[t].channel, task'[t].ttl))
       => /\ task'[t].pc = "done"
          /\ task'[t].result = channelCache[task'[t].channel].messages
          /\ task'[t].historyFetches = 0
          /\ task'[t].fetchOutcome = "none"
          /\ channelCache' = channelCache
          /\ displayNameCache' = displayNameCache]_vars

C1_Witness ==
  \E t \in Tasks :
    /\ task[t].pc = "done" /\ task[t].entry = "ephemeral"
    /\ task[t].historyFetches = 0
    /\ task[t].cachedAt # NoTime /\ task[t].now - task[t].cachedAt < task[t].ttl
    /\ Len(task[t].result) > 0
    /\ task[t].result = channelCache[task[t].channel].messages

\* C2: a call that finds no entry, or one of age >= ttl (the age ttl included),
\* issues exactly one upstream history fetch, and when the fetch succeeds the
\* entry of channel.id becomes the newly fetched sequence, which is returned.
C2_MissFetchesOnceAndStores ==
  [][\A t \in Tasks :
       /\ (Called(t) /\ task'[t].entry = "ephemeral"
             /\ ~FoundFresh(task'[t].channel, task'[t].ttl))
          => (task'[t].pc = "fetching" /\ task'[t].historyFetches = 1)
       /\ (task[t].entry = "ephemeral" /\ task[t].pc \in {"fetching", "prewarm", "format"})
          => (task[t].historyFetches = 1 /\ task'[t].historyFetches = 1)
       /\ (task[t].entry = "ephemeral" /\ task[t].pc = "format" /\ task'[t].pc = "done")
          => /\ Complete(task[t].fetched, task'[t].result)
             /\ channelCache'[task[t].channel] =
                  [lastFetchTime |-> task[t].now, messages |-> task'[t].result]]_vars

\* A stale entry of age exactly ttl was found, refetched and replaced.
C2_Witness ==
  \E t \in Tasks :
    /\ task[t].pc = "done" /\ task[t].entry = "ephemeral"
    /\ task[t].historyFetches = 1
    /\ task[t].cachedAt # NoTime /\ task[t].now - task[t].cachedAt = task[t].ttl
    /\ Len(task[t].result) > 0
    /\ channelCache[task[t].channel] =
         [lastFetchTime |-> task[t].now, messages |-> task[t].result]

\* C3: when the upstream history read fails, the call ends in the error, the
\* step changes neither cache (no entry created, modified, re-timestamped or
\* swept), and the next call for the channel that finds no fresh entry fetches again.
C3_FailureLeavesCache ==
  [][\A t \in Tasks :
       /\ (task[t].entry = "ephemeral" /\ task[t].pc = "fetching"
             /\ task'[t].fetchOutcome = "rejected")
          => /\ task'[t].pc = "failed"
             /\ task'[t].result = NoResult
             /\ channelCache' = channelCache
             /\ displayNameCache' = displayNameCache
       /\ (task[t].pc = "failed" /\ Called(t) /\ task'[t].entry = "ephemeral"
             /\ ~FoundFresh(task'[t].channel, task'[t].ttl))
          => (task'[t].pc = "fetching" /\ task'[t].historyFetches = 1)]_vars

\* A fetch failed on a miss and no entry exists for the channel.
C3_Witness ==
  \E t \in Tasks :
    /\ task[t].pc = "failed" /\ task[t].entry = "ephemeral"
    /\ task[t].fetchOutcome = "rejected"
    /\ task[t].cachedAt = NoTime
    /\ channelCache[task[t].channel] = NoEntry
    /\ clock >= 1

\* C4: when the upstream history read fails, fetchConversationFromDiscord
\* ends in the error: it returns nothing, not even part of a batch.
C4_FetchErrorNoPartialResult ==
  \A t \in Tasks :
    task[t].fetchOutcome = "rejected"
    => /\ task[t].pc = "failed"
       /\ task[t].result = NoResult
       /\ task[t].memberLookups = 0

C4_Witness ==
  \E t \in Tasks :
    /\ task[t].entry = "direct"
    /\ task[t].fetchOutcome = "rejected"
    /\ task[t].pc = "failed"

\* C5: when the upstream history read succeeds, fetchConversationFromDiscord
\* never ends in an error, whatever membership lookups fail, and returns one
\* ConversationMessage for every message of the batch.
C5_NameFailureAbsorbed ==
  \A t \in Tasks :
    task[t].fetchOutcome = "resolved"
    => /\ task[t].pc # "failed"
       /\ task[t].pc = "done" => Complete(task[t].fetched, task[t].result)

\* A fetch returned a whole batch although a membership lookup threw.
C5_Witness ==
  \E t \in Tasks :
    /\ task[t].entry = "direct" /\ task[t].pc = "done"
    /\ task[t].lookupFailed
    /\ Len(task[t].fetched) = 3
    /\ Len(task[t].result) = 3

\* C6: the returned messages are in ascending order of createdTimestamp, and
\* messages with equal timestamps keep the order they had in the upstream batch.
C6_OrderedStable ==
  \A t \in Tasks :
    (task[t].pc = "done" /\ task[t].fetchOutcome = "resolved")
    => \A i, j \in 1..Len(task[t].result) :
         i < j =>
           LET a == Origin(task[t].fetched, task[t].result[i])
               b == Origin(task[t].fetched, task[t].result[j])
           IN /\ task[t].fetched[a].createdTimestamp <= task[t].fetched[b].createdTimestamp
              /\ task[t].fetched[a].createdTimestamp = task[t].fetched[b].createdTimestamp
                 => a < b
              /\ task[t].result[i].timestamp =
                   ToISOString(task[t].fetched[a].createdTimestamp)

\* A batch that arrived newest first, with a tie, was returned.
C6_Witness ==
  \E t \in Tasks :
    /\ task[t].pc = "done" /\ task[t].entry = "direct"
    /\ Len(task[t].fetched) = 3 /\ Len(task[t].result) = 3
    /\ task[t].fetched[1].createdTimestamp = task[t].fetched[2].createdTimestamp
    /\ task[t].fetched[2].createdTimestamp > task[t].fetched[3].createdTimestamp
    /\ task[t].result[1].text = task[t].fetched[3].content
    /\ task[t].result[2].text = task[t].fetched[1].content

\* C7: one call of fetchConversationFromDiscord invokes guild.members.fetch at
\* most once per distinct author of the batch.
C7_LookupsAtMostAuthors ==
  \A t \in Tasks :
    task[t].fetchOutcome = "resolved"
    => task[t].memberLookups <= Cardinality(Authors(task[t].fetched))

\* The name an author falls back to: the global name if present, else the handle.
GlobalElseHandle(u) == IF GlobalName(u) = NoName THEN Username(u) ELSE GlobalName(u)

\* C8: in a guild, when the membership lookup throws or the guild is not in
\* the client's cache, the resolution yields the author's global name if
\* present, else the handle, and the fetch does not fail.
C8_FallbackOnFailure ==
  \A t \in Tasks :
    \A i \in DOMAIN task[t].names :
      task[t].names[i].via \in {"fail", "uncached"}
      => /\ task[t].sorted[i].guildId # NoGuild
         /\ task[t].names[i].name = GlobalElseHandle(task[t].sorted[i].author)
         /\ task[t].pc # "failed"

\* A lookup threw for the author without a global name: the handle was used.
C8_Witness ==
  \E t \in Tasks :
    \E i \in DOMAIN task[t].names :
      /\ task[t].names[i].via = "fail"
      /\ GlobalName(task[t].sorted[i].author) = NoName
      /\ task[t].names[i].name = Username(task[t].sorted[i].author)

\* C9: on a miss in a guild with a successful lookup the name is the nickname
\* if set, else the global name if present, else the handle; in a direct
\* message no lookup is issued and the name is the global name, else the handle.
C9_ResolutionPriority ==
  \A t \in Tasks :
    /\ \A i \in DOMAIN task[t].names :
         LET msg == task[t].sorted[i]
             got == task[t].names[i]
         IN /\ got.via = "nick" => got.name = Nickname(msg.guildId, msg.author)
            /\ got.via \in {"nonick", "direct"} => got.name = GlobalElseHandle(msg.author)
            /\ got.via = "direct" <=> (msg.guildId = NoGuild /\ got.via \notin {"hit", "unresolved"})
    /\ GuildOf(task[t].channel) = NoGuild
       => (task[t].memberLookups = 0 /\ task[t].pending = {})

\* A member with a nickname and a global name was resolved to the nickname.
C9_Witness ==
  \E t \in Tasks :
    \E i \in DOMAIN task[t].names :
      /\ task[t].names[i].via = "nick"
      /\ GlobalName(task[t].sorted[i].author) # NoName
      /\ task[t].names[i].name = Nickname(task[t].sorted[i].guildId, task[t].sorted[i].author)

\* A step in which task t ran getUserDisplayName up to its first await.
Resolving(t) ==
  /\ task[t].pc \in {"prewarm", "format"}
  /\ task'[t].pc = task[t].pc
  /\ task'[t].cursor = task[t].cursor + 1

\* C10: a resolution that finds an entry for the message's key with
\* now - lastFetchTime < DISPLAY_NAME_CACHE_DURATION returns the cached
\* displayName, issues no membership lookup and does not write the cache.
C10_DisplayNameHit ==
  [][\A t \in Tasks :
       Resolving(t) =>
         LET i == Scan(task[t])[task[t].cursor]
             cached == displayNameCache[CacheKey(task[t].sorted[i])]
         IN (cached # NoEntry
               /\ clock - cached.lastFetchTime < DISPLAY_NAME_CACHE_DURATION)
            => /\ task'[t].names[i].name = cached.displayName
               /\ task'[t].memberLookups = task[t].memberLookups
               /\ task'[t].pending = task[t].pending
               /\ displayNameCache' = displayNameCache]_vars

\* The format pass read a name the cache held for a tick.
C10_Witness ==
  \E t \in Tasks :
    \E i \in DOMAIN task[t].names :
      /\ task[t].pc = "format"
      /\ task[t].names[i].via = "hit"
      /\ LET cached == displayNameCache[CacheKey(task[t].sorted[i])]
         IN /\ cached # NoEntry
            /\ cached.displayName = task[t].names[i].name
            /\ cached.lastFetchTime < clock

\* The key the entry of a message's author is filed under: guild and user in
\* a guild, the user alone in a direct message.
KeyOfAuthor(msg) ==
  IF msg.guildId = NoGuild THEN <<msg.author>> ELSE <<msg.guildId, msg.author>>

\* The step resolved message i of task t (its name was settled in this step).
Settled(t, i) ==
  /\ i \in DOMAIN task[t].names
  /\ task'[t].pc = task[t].pc
  /\ task'[t].names[i] # task[t].names[i]
  /\ task'[t].names[i].via \notin {"hit", "unresolved"}

\* C11: display-name entries are keyed by (guildId, userId) in a guild and by
\* userId in a direct message: an entry under a guild's key holds a name
\* resolved in that guild, an entry under a user's key never a nickname, and a
\* step changes only the entry of the message it resolves, apart from evicting
\* entries that are already too old to be returned.
C11_KeyDiscrimination ==
  [][/\ \A g \in Guilds, u \in Users :
          displayNameCache'[<<g, u>>] # NoEntry
          => displayNameCache'[<<g, u>>].displayName
               \in {Nickname(g, u), GlobalElseHandle(u)}
     /\ \A u \in Users :
          displayNameCache'[<<u>>] # NoEntry
          => displayNameCache'[<<u>>].displayName = GlobalElseHandle(u)
     /\ \A k \in NameKeys :
          displayNameCache'[k] # displayNameCache[k]
          => \/ /\ displayNameCache'[k] = NoEntry
                /\ clock - displayNameCache[k].lastFetchTime > DISPLAY_NAME_CACHE_DURATION
             \/ \E t \in Tasks : \E i \in DOMAIN task[t].sorted :
                  Settled(t, i) /\ KeyOfAuthor(task[t].sorted[i]) = k]_vars

\* u1 holds three entries at once: its nickname in g1, its global name in g2
\* and its global name in the direct message.
C11_Witness ==
  /\ displayNameCache[<<"g1", "u1">>] # NoEntry
  /\ displayNameCache[<<"g2", "u1">>] # NoEntry
  /\ displayNameCache[<<"u1">>] # NoEntry
  /\ displayNameCache[<<"g1", "u1">>].displayName = Nickname("g1", "u1")
  /\ displayNameCache[<<"g2", "u1">>].displayName = GlobalName("u1")
  /\ displayNameCache[<<"u1">>].displayName = GlobalName("u1")

\* The Date.now() the resolution of message i read when it started: that of
\* its suspended lookup, or the clock when it settles without awaiting.
StartedAt(t, i) ==
  IF \E p \in task[t].pending : p.idx = i
  THEN (CHOOSE p \in task[t].pending : p.idx = i).now
  ELSE clock

\* C12 as claimed: every resolution that misses writes the resolved value
\* under the message's key with the timestamp current at the write.
C12_WritesCurrentTimestamp ==
  [][\A t \in Tasks : \A i \in DOMAIN task[t].sorted :
       Settled(t, i)
       => displayNameCache'[KeyOfAuthor(task[t].sorted[i])] =
            [displayName |-> task'[t].names[i].name, lastFetchTime |-> clock]]_vars

\* C12 as amended: every resolution that misses writes the resolved value
\* under the message's key, whichever tier produced it, with the timestamp
\* the resolution read when it started, which is never later than the clock.
C12_WritesStartTimestamp ==
  [][\A t \in Tasks : \A i \in DOMAIN task[t].sorted :
       Settled(t, i)
       => /\ displayNameCache'[KeyOfAuthor(task[t].sorted[i])] =
               [displayName |-> task'[t].names[i].name,
                lastFetchTime |-> StartedAt(t, i)]
          /\ StartedAt(t, i) <= clock]_vars

\* The handle, used after a lookup that threw, is cached with a timestamp
\* older than the clock.
C12_Witness ==
  \E t \in Tasks : \E i \in DOMAIN task[t].names :
    LET e == displayNameCache[KeyOfAuthor(task[t].sorted[i])]
    IN /\ task[t].names[i].via = "fail"
       /\ e # NoEntry
       /\ e.displayName = Username(task[t].sorted[i].author)
       /\ e.lastFetchTime < clock

\* The number of entries a cache holds once key is set in it.
SizeWith(cache, key) == Cardinality({k \in DOMAIN cache : cache[k] # NoEntry} \cup {key})

\* The step stored the result of task t in channelCache.
Stored(t) ==
  /\ task[t].entry = "ephemeral"
  /\ task[t].pc = "format"
  /\ task'[t].pc = "done"

\* What a sweep at now with ttl leaves of the entry e of another key.
AfterSweep(e, now, ttl) ==
  IF e # NoEntry /\ e.lastFetchTime < now - ttl THEN NoEntry ELSE e

\* C13: when an insert leaves a cache with more than SWEEP_THRESHOLD entries,
\* the sweep of that insert removes exactly the entries whose lastFetchTime is
\* older than the insert's now minus its TTL (the call's ttl for channelCache,
\* DISPLAY_NAME_CACHE_DURATION for displayNameCache): every survivor has
\* lastFetchTime >= now - TTL.
C13_SweepPostcondition ==
  [][/\ \A t \in Tasks :
          (Stored(t) /\ SizeWith(channelCache, task[t].channel) > SWEEP_THRESHOLD)
          => \A c \in Channels :
               /\ channelCache'[c] # NoEntry
                  => channelCache'[c].lastFetchTime >= task[t].now - task[t].ttl
               /\ c # task[t].channel
                  => channelCache'[c] = AfterSweep(channelCache[c], task[t].now, task[t].ttl)
     /\ \A t \in Tasks : \A i \in DOMAIN task[t].sorted :
          (Settled(t, i)
             /\ SizeWith(displayNameCache, KeyOfAuthor(task[t].sorted[i])) > SWEEP_THRESHOLD)
          => \A k \in NameKeys :
               /\ displayNameCache'[k] # NoEntry
                  => displayNameCache'[k].lastFetchTime
                       >= StartedAt(t, i) - DISPLAY_NAME_CACHE_DURATION
               /\ k # KeyOfAuthor(task[t].sorted[i])
                  => displayNameCache'[k] =
                       AfterSweep(displayNameCache[k], StartedAt(t, i),
                                  DISPLAY_NAME_CACHE_DURATION)]_vars

\* The entry of c2 is gone although c2 was fetched (its author's name is
\* cached): the insert for d1, two ticks later, swept it.
C13_Witness ==
  \E t \in Tasks :
    /\ task[t].pc = "done" /\ task[t].channel = "d1" /\ task[t].historyFetches = 1
    /\ channelCache["d1"] # NoEntry
    /\ channelCache["d1"].lastFetchTime = task[t].now
    /\ channelCache["c2"] = NoEntry
    /\ displayNameCache[<<"g2", "u1">>] # NoEntry
    /\ displayNameCache[<<"g2", "u1">>].lastFetchTime < task[t].now - task[t].ttl

\* C14: an entry leaves a cache only in the sweep that follows a successful
\* insert leaving the cache with more than SWEEP_THRESHOLD entries, and only
\* when it is older than that insert's window; a fresh-entry return, a failed
\* fetch and an insert that leaves the size at or below the threshold remove
\* nothing.
C14_SweepTrigger ==
  [][/\ \A c \in Channels :
          (channelCache[c] # NoEntry /\ channelCache'[c] = NoEntry)
          => \E t \in Tasks :
               /\ Stored(t)
               /\ task[t].fetchOutcome = "resolved"
               /\ c # task[t].channel
               /\ channelCache'[task[t].channel] # NoEntry
               /\ SizeWith(channelCache, task[t].channel) > SWEEP_THRESHOLD
               /\ channelCache[c].lastFetchTime < task[t].now - task[t].ttl
     /\ \A k \in NameKeys :
          (displayNameCache[k] # NoEntry /\ displayNameCache'[k] = NoEntry)
          => \E t \in Tasks : \E i \in DOMAIN task[t].sorted :
               /\ Settled(t, i)
               /\ k # KeyOfAuthor(task[t].sorted[i])
               /\ displayNameCache'[KeyOfAuthor(task[t].sorted[i])] # NoEntry
               /\ SizeWith(displayNameCache, KeyOfAuthor(task[t].sorted[i]))
                    > SWEEP_THRESHOLD
               /\ displayNameCache[k].lastFetchTime
                    < StartedAt(t, i) - DISPLAY_NAME_CACHE_DURATION
     /\ \A t \in Tasks :
          (Called(t) /\ task'[t].pc = "done")
          => channelCache' = channelCache /\ displayNameCache' = displayNameCache
     /\ \A t \in Tasks :
          task'[t].pc = "failed"
          => channelCache' = channelCache /\ displayNameCache' = displayNameCache
     /\ \A t \in Tasks :
          (Stored(t) /\ SizeWith(channelCache, task[t].channel) <= SWEEP_THRESHOLD)
          => \A c \in Channels :
               c # task[t].channel => channelCache'[c] = channelCache[c]]_vars

\* The name of c2's author was swept from displayNameCache by the insert of
\* d1's author, three ticks later, while both conversations are still cached
\* from within the last tick.
C14_Witness ==
  /\ displayNameCache[<<"g2", "u1">>] = NoEntry
  /\ displayNameCache[<<"u1">>] # NoEntry
  /\ channelCache["c2"] # NoEntry
  /\ channelCache["c2"].messages # << >>
  /\ channelCache["d1"] # NoEntry

\* Another task is suspended in its upstream fetch of channel c.
FetchInFlight(t, c) ==
  \E o \in Tasks \ {t} :
    /\ task[o].entry = "ephemeral"
    /\ task[o].channel = c
    /\ task[o].pc = "fetching"

\* C15: a call of ephemeralFetchConversation can start while another one for
\* the same channel is suspended in its upstream fetch, and when it finds no
\* fresh entry it issues an upstream fetch of its own: the first call's fetch
\* is neither awaited nor shared.
C15_NoSingleFlight ==
  [][\A t \in Tasks : \A c \in Channels : \A ttl \in CacheDurations :
       /\ (FetchInFlight(t, c) /\ task[t].pc \in {"idle", "done", "failed"}
             /\ NoneRunning)
          => ENABLED CallEphemeral(t, c, 1, ttl)
       /\ (Called(t) /\ task'[t].entry = "ephemeral" /\ task'[t].channel = c
             /\ task'[t].ttl = ttl /\ FetchInFlight(t, c) /\ ~FoundFresh(c, ttl))
          => /\ task'[t].pc = "fetching"
             /\ task'[t].historyFetches = 1
             /\ \A o \in Tasks \ {t} : task'[o] = task[o]]_vars

\* Two upstream fetches of c2 in flight at once, started within one window.
C15_Witness ==
  /\ task["t1"].pc = "fetching" /\ task["t2"].pc = "fetching"
  /\ task["t1"].channel = "c2" /\ task["t2"].channel = "c2"
  /\ task["t1"].historyFetches = 1 /\ task["t2"].historyFetches = 1
  /\ task["t2"].now - task["t1"].now < task["t1"].ttl
  /\ task["t1"].now <= task["t2"].now

\* C16: under every interleaving of concurrent calls, a step that changes
\* the entry of channel c either removes it or replaces it, whole, by the
\* complete result of the one upstream fetch of c that the storing call made;
\* so every entry holds each message of one batch of c once, and nothing of
\* another fetch or of another channel.
C16_EntryIntegrity ==
  [][\A c \in Channels :
       /\ channelCache'[c] # channelCache[c]
          => \/ channelCache'[c] = NoEntry
             \/ \E t \in Tasks :
                  /\ Stored(t)
                  /\ task[t].channel = c
                  /\ task[t].fetchOutcome = "resolved"
                  /\ task[t].historyFetches = 1
                  /\ \A i \in DOMAIN task[t].fetched :
                       task[t].fetched[i] \in ChannelMessages(c)
                  /\ Complete(task[t].fetched, channelCache'[c].messages)
                  /\ channelCache'[c] =
                       [lastFetchTime |-> task[t].now, messages |-> Formatted(task[t])]
                  /\ task'[t].result = channelCache'[c].messages
       /\ channelCache'[c] # NoEntry
          => LET ms == channelCache'[c].messages
             IN /\ \A j \in DOMAIN ms :
                     \E m \in ChannelMessages(c) : m.content = ms[j].text
                /\ \A j, k \in DOMAIN ms : ms[j].text = ms[k].text => j = k]_vars

\* Two calls for c2 that read the same Date.now() both fetched (so the second
\* started while the first was suspended), they returned different results,
\* and the entry is the result of one of them.
C16_Witness ==
  /\ task["t1"].pc = "done" /\ task["t2"].pc = "done"
  /\ task["t1"].channel = "c2" /\ task["t2"].channel = "c2"
  /\ task["t1"].historyFetches = 1 /\ task["t2"].historyFetches = 1
  /\ task["t1"].now = task["t2"].now
  /\ task["t1"].result # task["t2"].result
  /\ task["t1"].result # << >> /\ task["t2"].result # << >>
  /\ channelCache["c2"] # NoEntry
  /\ channelCache["c2"].messages = task["t1"].result

\* C17: the sequence a call of ephemeralFetchConversation(channel, limit,
\* cacheDurationMs) returns, from the cache or freshly fetched, is no longer
\* than the limit passed to that call.
C17_AtMostLimit ==
  \A t \in Tasks :
    (task[t].pc = "done" /\ task[t].entry = "ephemeral")
    => Len(task[t].result) <= task[t].limit

\* Every ConversationMessage of ms was made from a message of channel c.
FromChannel(ms, c) ==
  \A j \in DOMAIN ms : \E m \in ChannelMessages(c) : m.content = ms[j].text

\* C18: whatever fetches, failures and sweeps happened on any channels, a
\* call of ephemeralFetchConversation for channel c returns only messages
\* fetched from c, and the entry under c holds only messages of c.
C18_NoCrossChannel ==
  /\ \A t \in Tasks :
       (task[t].pc = "done" /\ task[t].entry = "ephemeral")
       => FromChannel(task[t].result, task[t].channel)
  /\ \A c \in Channels :
       channelCache[c] # NoEntry => FromChannel(channelCache[c].messages, c)

\* A call for d1 was answered from the cache while the entry of c2, stored
\* later, was there to be confused with it.
C18_Witness ==
  \E t \in Tasks :
    /\ task[t].pc = "done" /\ task[t].entry = "ephemeral"
    /\ task[t].channel = "d1"
    /\ task[t].historyFetches = 0
    /\ task[t].result # << >>
    /\ channelCache["c2"] # NoEntry
    /\ channelCache["c2"].messages # << >>
    /\ channelCache["d1"] # NoEntry
    /\ channelCache["c2"].lastFetchTime >= channelCache["d1"].lastFetchTime

\* The step answered a call of task t from the cache.
ServedFromCache(t) ==
  /\ Called(t)
  /\ task'[t].entry = "ephemeral"
  /\ task'[t].pc = "done"

\* C19 as stated: an entry stored by a fetch that one bot's handler triggered
\* is never returned to a call that another bot's handler triggered.
C19_NoCrossBot ==
  [][\A t \in Tasks :
       ServedFromCache(t) => storedBy[task'[t].channel] = BotOf(t)]_vars

\* C19: the conversation cache is one map for all the bots of the process,
\* keyed by channel id alone: a call that finds a fresh entry under its
\* channel's id returns it without fetching even when another bot's handler
\* stored it, and what a call is served from the cache is always the entry
\* under its own channel's id.
C19_SharedAcrossBots ==
  [][\A t \in Tasks :
       /\ (Called(t) /\ task'[t].entry = "ephemeral"
             /\ FoundFresh(task'[t].channel, task'[t].ttl)
             /\ storedBy[task'[t].channel] # BotOf(t))
          => /\ ServedFromCache(t)
             /\ task'[t].historyFetches = 0
             /\ task'[t].result = channelCache[task'[t].channel].messages
       /\ ServedFromCache(t)
          => /\ channelCache[task'[t].channel] # NoEntry
             /\ storedBy[task'[t].channel] \in Bots
             /\ task'[t].result = channelCache[task'[t].channel].messages]_vars

\* bot2's handler was served, without a fetch, the entry bot1's handler stored.
C19_Witness ==
  /\ task["t2"].pc = "done" /\ task["t2"].entry = "ephemeral"
  /\ task["t2"].channel = "c2"
  /\ task["t2"].historyFetches = 0
  /\ storedBy["c2"] = "bot1"
  /\ channelCache["c2"] # NoEntry
  /\ channelCache["c2"].messages = task["t2"].result
  /\ task["t2"].result # << >>
  /\ task["t2"].cachedAt = channelCache["c2"].lastFetchTime

\* C20: a call whose own upstream calls return completes, by returning or by
\* throwing, whatever becomes of the other call in flight: an upstream fetch
\* of the other task that never returns suspends that task alone.
C20_OthersComplete ==
  (task["t2"].pc \in {"fetching", "prewarm", "format"})
    ~> (task["t2"].pc \in {"done", "failed"})

\* t1 is still suspended in the upstream fetch it started a tick before t2
\* called, and t2 has fetched, stored and returned.
C20_Witness ==
  /\ task["t1"].pc = "fetching"
  /\ task["t2"].pc = "done"
  /\ task["t2"].historyFetches = 1
  /\ task["t2"].result # << >>
  /\ task["t1"].channel \in {"c2", "d1"}
  /\ task["t1"].now < task["t2"].now
  /\ channelCache[task["t2"].channel] # NoEntry
  /\ channelCache[task["t2"].channel].lastFetchTime = task["t2"].now

\* ------------------------------------------------------------ bot manager
\* String.prototype.toLowerCase, character by character.
LowerChar(ch) == CASE ch = "B" -> "b" [] ch = "O" -> "o" [] OTHER -> ch

ToLowerCase(str) == [i \in 1..Len(str) |-> LowerChar(str[i])]

\* String.prototype.includes.
Includes(str, sub) ==
  \E i \in 0..(Len(str) - Len(sub)) : SubSeq(str, i + 1, i + Len(sub)) = sub

\* Variant: the arguments of includes are swapped.
NameContainsContent(msg) == Includes(ToLowerCase(BotUsername), ToLowerCase(msg.content))

\* message.content.toLowerCase().includes(botUser.username.toLowerCase())
ContainsBotName(msg) == Includes(ToLowerCase(msg.content), ToLowerCase(BotUsername))

\* message.channel.type === ChannelType.DM
IsDM(c) == GuildOf(c) = NoGuild

\* The handlers pass limit 30 and cacheDurationMs 5000 to
\* ephemeralFetchConversation; here, every message of a channel and one tick.
HandlerLimit == 2
HandlerDuration == 1

\* ---- initializeAllBots
\* initializeAllBots(botConfigs) up to its await: createDiscordClientForBot is
\* called for every config and each call awaits client.login.
InitializeAllBots ==
  /\ proc = "loaded"
  /\ proc' = "initializing"
  /\ initPromises' = [b \in Bots |-> "pending"]
  /\ UNCHANGED <<clock, guildsCache, channelCache, displayNameCache, task, storedBy, readAt, unsweptAt,
                 activeBots, dmConversationCounts, successfulBots, shutdownPromises,
                 handler, startVars>>

\* client.login resolves: the client is recorded in activeBots and returned.
LoginOk(b) ==
  /\ proc = "initializing"
  /\ initPromises[b] = "pending"
  /\ NoneRunning
  /\ activeBots' = activeBots \cup {b}
  /\ initPromises' = [initPromises EXCEPT ![b] = "client"]
  /\ UNCHANGED <<clock, guildsCache, channelCache, displayNameCache, task, storedBy, readAt, unsweptAt,
                 proc, dmConversationCounts, successfulBots, shutdownPromises, handler, startVars>>

\* Variant: the rejection is not caught per bot, Promise.all rejects and main
\* exits.
LoginFailFatal(b) ==
  /\ proc = "initializing"
  /\ initPromises[b] = "pending"
  /\ NoneRunning
  /\ initPromises' = [initPromises EXCEPT ![b] = "null"]
  /\ proc' = "exited"
  /\ UNCHANGED <<clock, guildsCache, channelCache, displayNameCache, task, storedBy, readAt, unsweptAt,
                 activeBots, dmConversationCounts, successfulBots, shutdownPromises,
                 handler, startVars>>

\* client.login rejects: createDiscordClientForBot rethrows and the .catch of
\* initializeAllBots turns the rejection into null.
LoginFail(b) ==
  /\ proc = "initializing"
  /\ initPromises[b] = "pending"
  /\ NoneRunning
  /\ initPromises' = [initPromises EXCEPT ![b] = "null"]
  /\ UNCHANGED <<clock, guildsCache, channelCache, displayNameCache, task, storedBy, readAt, unsweptAt,
                 proc, activeBots, dmConversationCounts, successfulBots,
                 shutdownPromises, handler, startVars>>

\* The configs in the order loadBotConfigs pushed them.
ConfigOrder == <<"bot1", "bot2">>

\* results.filter(client => client !== null), as the ids of the clients.
RECURSIVE FilterClients(_, _)
FilterClients(order, results) ==
  IF order = << >> THEN << >>
  ELSE (IF results[Head(order)] = "client" THEN <<Head(order)>> ELSE << >>)
         \o FilterClients(Tail(order), results)

\* Promise.all(initPromises) resolves: initializeAllBots returns the clients
\* that are not null, and main registers the signal handlers.
InitDone ==
  /\ proc = "initializing"
  /\ \A b \in Bots : initPromises[b] \in {"client", "null"}
  /\ NoneRunning
  /\ successfulBots' = FilterClients(ConfigOrder, initPromises)
  /\ proc' = "running"
  /\ UNCHANGED <<clock, guildsCache, channelCache, displayNameCache, task, storedBy, readAt, unsweptAt,
                 activeBots, dmConversationCounts, initPromises, shutdownPromises,
                 handler, startVars>>

\* ---- shutdownAllBots
\* SIGINT or SIGTERM: shutdownAllBots up to its await, client.destroy() called
\* on every client of activeBots.
Shutdown ==
  /\ proc = "running"
  /\ NoneRunning
  /\ proc' = "shuttingDown"
  /\ shutdownPromises' = [b \in Bots |-> IF b \in activeBots THEN "pending" ELSE "none"]
  /\ UNCHANGED <<clock, guildsCache, channelCache, displayNameCache, task, storedBy, readAt, unsweptAt,
                 activeBots, dmConversationCounts, initPromises, successfulBots,
                 handler, startVars>>

\* client.destroy() resolves.
DestroyOk(b) ==
  /\ proc = "shuttingDown"
  /\ shutdownPromises[b] = "pending"
  /\ NoneRunning
  /\ shutdownPromises' = [shutdownPromises EXCEPT ![b] = "destroyed"]
  /\ UNCHANGED <<clock, guildsCache, channelCache, displayNameCache, task, storedBy, readAt, unsweptAt,
                 proc, activeBots, dmConversationCounts, initPromises, successfulBots,
                 handler, startVars>>

\* Variant: the rejection is not caught per client, Promise.all rejects and
\* shutdownAllBots throws before it clears the maps.
DestroyFailFatal(b) ==
  /\ proc = "shuttingDown"
  /\ shutdownPromises[b] = "pending"
  /\ NoneRunning
  /\ shutdownPromises' = [shutdownPromises EXCEPT ![b] = "failed"]
  /\ proc' = "exited"
  /\ UNCHANGED <<clock, guildsCache, channelCache, displayNameCache, task, storedBy, readAt, unsweptAt,
                 activeBots, dmConversationCounts, initPromises, successfulBots,
                 handler, startVars>>

\* client.destroy() rejects: the error is caught and logged.
DestroyFail(b) ==
  /\ proc = "shuttingDown"
  /\ shutdownPromises[b] = "pending"
  /\ NoneRunning
  /\ shutdownPromises' = [shutdownPromises EXCEPT ![b] = "failed"]
  /\ UNCHANGED <<clock, guildsCache, channelCache, displayNameCache, task, storedBy, readAt, unsweptAt,
                 proc, activeBots, dmConversationCounts, initPromises, successfulBots,
                 handler, startVars>>

\* Promise.all(shutdownPromises) resolves: both maps are cleared,
\* shutdownAllBots returns and the signal handler exits the process.
ShutdownDone ==
  /\ proc = "shuttingDown"
  /\ \A b \in Bots : shutdownPromises[b] # "pending"
  /\ NoneRunning
  /\ activeBots' = {}
  /\ dmConversationCounts' = [k \in DmKeys |-> NoEntry]
  /\ proc' = "exited"
  /\ UNCHANGED <<clock, guildsCache, channelCache, displayNameCache, task, storedBy, readAt, unsweptAt,
                 initPromises, successfulBots, shutdownPromises, handler, startVars>>

\* ---- the messageCreate handler and handleDirectMessage
\* The number of direct messages a user sends a bot in a run.
MaxDMs == 3
\* The count at which handleDirectMessage adds the call-to-action.
CTA_COUNT == 2

\* The lifecycle and the startup state, which no step of a handler writes.
lifeVars == <<proc, activeBots, initPromises, successfulBots, shutdownPromises, startVars>>

\* The client of bot b is logged in and still delivers events.
Listening(b) ==
  /\ proc \in {"initializing", "running", "shuttingDown"}
  /\ b \in activeBots
  /\ shutdownPromises[b] # "destroyed"

\* A messageCreate event: the handler runs up to its first await. It returns
\* at once for a bot's message, and in a guild channel when client.user is
\* missing or the message neither mentions the bot nor contains its name;
\* a direct message is counted in dmConversationCounts; then sendTyping is
\* called and awaited.
Receive(t, msg, hasUser) ==
  LET key == <<BotOf(t), msg.author>>
      currentData == IF dmConversationCounts[key] = NoEntry
                     THEN [count |-> 0, lastMessageTime |-> 0]
                     ELSE dmConversationCounts[key]
      newCount == currentData.count + 1
      fresh == [IdleHandler EXCEPT !.message = msg]
  IN /\ handler[t].pc \in {"idle", "ignored", "done", "crashed"}
     /\ task[t].pc \in {"idle", "done", "failed"}
     /\ NoneRunning
     /\ Listening(BotOf(t))
     /\ IF msg.bot
        THEN /\ handler' = [handler EXCEPT ![t] = [fresh EXCEPT !.pc = "ignored"]]
             /\ UNCHANGED dmConversationCounts
        ELSE IF IsDM(msg.channel)
        THEN /\ currentData.count < MaxDMs
             /\ dmConversationCounts' =
                  [dmConversationCounts EXCEPT ![key] =
                     [count |-> newCount, lastMessageTime |-> clock]]
             /\ handler' = [handler EXCEPT ![t] =
                              [fresh EXCEPT !.pc = "typing", !.dm = TRUE,
                                            !.newCount = newCount, !.typings = 1]]
        ELSE IF ~hasUser \/ (~msg.mentioned /\ ~ContainsBotName(msg))
        THEN /\ handler' = [handler EXCEPT ![t] = [fresh EXCEPT !.pc = "ignored"]]
             /\ UNCHANGED dmConversationCounts
        ELSE /\ handler' = [handler EXCEPT ![t] =
                              [fresh EXCEPT !.pc = "typing", !.typings = 1]]
             /\ UNCHANGED dmConversationCounts
     /\ UNCHANGED <<clock, guildsCache, channelCache, displayNameCache, task, storedBy, readAt, unsweptAt,
                    lifeVars>>

\* sendTyping resolves: ephemeralFetchConversation(message.channel, 30, 5000)
\* is called and awaited.
TypingOk(t) ==
  /\ handler[t].pc = "typing"
  /\ proc # "exited"
  /\ EphemeralCall(t, handler[t].message.channel, HandlerLimit, HandlerDuration)
  /\ handler' = [handler EXCEPT ![t].pc = "fetch",
                                ![t].fetches = handler[t].fetches + 1]
  /\ UNCHANGED <<lifeVars, dmConversationCounts>>

\* An await of the try block rejects (sendTyping, the conversation fetch, the
\* inference call, the reply or the call-to-action): the catch block logs
\* and sends the error message, which it awaits.
Catch(t, from) ==
  /\ handler[t].pc = from
  /\ proc # "exited"
  /\ NoneRunning
  /\ handler' = [handler EXCEPT ![t].pc = "error", ![t].failed = from]
  /\ UNCHANGED <<clock, guildsCache, channelCache, displayNameCache, task, storedBy, readAt, unsweptAt,
                 lifeVars, dmConversationCounts>>

\* sendTyping rejects.
TypingFail(t) == Catch(t, "typing")

\* ephemeralFetchConversation returned: callKindroidAI(botConfig.aiId,
\* conversationArray, botConfig.enableFilter) is called and awaited.
FetchReturned(t) ==
  /\ handler[t].pc = "fetch"
  /\ task[t].pc = "done"
  /\ proc # "exited"
  /\ NoneRunning
  /\ handler' = [handler EXCEPT ![t].pc = "infer",
                                ![t].conversation = task[t].result,
                                ![t].inferences = handler[t].inferences + 1]
  /\ UNCHANGED <<clock, guildsCache, channelCache, displayNameCache, task, storedBy, readAt, unsweptAt,
                 lifeVars, dmConversationCounts>>

\* ephemeralFetchConversation threw.
FetchThrew(t) ==
  /\ task[t].pc = "failed"
  /\ Catch(t, "fetch")

\* callKindroidAI returned the reply text: message.reply(aiReply), or
\* message.channel.send(aiReply) for an unmentioned bot, is called and awaited.
InferOk(t) ==
  /\ handler[t].pc = "infer"
  /\ proc # "exited"
  /\ NoneRunning
  /\ handler' = [handler EXCEPT ![t].pc = "reply"]
  /\ UNCHANGED <<clock, guildsCache, channelCache, displayNameCache, task, storedBy, readAt, unsweptAt,
                 lifeVars, dmConversationCounts>>

\* callKindroidAI threw.
InferFail(t) == Catch(t, "infer")

\* Variant: the call-to-action follows every reply from the CTA_COUNT-th on.
ReplyOkFromCount(t) ==
  LET h == handler[t]
      cta == h.dm /\ h.newCount >= CTA_COUNT /\ HasAppLink(BotOf(t))
  IN /\ h.pc = "reply"
     /\ proc # "exited"
     /\ NoneRunning
     /\ handler' = [handler EXCEPT ![t].pc = IF cta THEN "cta" ELSE "done",
                                   ![t].sent = Append(h.sent, "reply")]
     /\ UNCHANGED <<clock, guildsCache, channelCache, displayNameCache, task, storedBy, readAt, unsweptAt,
                    lifeVars, dmConversationCounts>>

\* The reply was delivered: a direct message whose count is CTA_COUNT, to a
\* bot with an app link, is followed by the call-to-action, which is awaited.
ReplyOk(t) ==
  LET h == handler[t]
      cta == h.dm /\ h.newCount = CTA_COUNT /\ HasAppLink(BotOf(t))
  IN /\ h.pc = "reply"
     /\ proc # "exited"
     /\ NoneRunning
     /\ handler' = [handler EXCEPT ![t].pc = IF cta THEN "cta" ELSE "done",
                                   ![t].sent = Append(h.sent, "reply")]
     /\ UNCHANGED <<clock, guildsCache, channelCache, displayNameCache, task, storedBy, readAt, unsweptAt,
                    lifeVars, dmConversationCounts>>

\* The reply was not delivered.
ReplyFail(t) == Catch(t, "reply")

\* The call-to-action was delivered.
CtaOk(t) ==
  /\ handler[t].pc = "cta"
  /\ proc # "exited"
  /\ NoneRunning
  /\ handler' = [handler EXCEPT ![t].pc = "done",
                                ![t].sent = Append(handler[t].sent, "cta")]
  /\ UNCHANGED <<clock, guildsCache, channelCache, displayNameCache, task, storedBy, readAt, unsweptAt,
                 lifeVars, dmConversationCounts>>

\* The call-to-action was not delivered.
CtaFail(t) == Catch(t, "cta")

\* The error message was delivered.
ErrorOk(t) ==
  /\ handler[t].pc = "error"
  /\ proc # "exited"
  /\ NoneRunning
  /\ handler' = [handler EXCEPT ![t].pc = "done",
                                ![t].sent = Append(handler[t].sent, "error")]
  /\ UNCHANGED <<clock, guildsCache, channelCache, displayNameCache, task, storedBy, readAt, unsweptAt,
                 lifeVars, dmConversationCounts>>

\* The error message was not delivered: the handler's promise rejects.
ErrorFail(t) ==
  /\ handler[t].pc = "error"
  /\ proc # "exited"
  /\ NoneRunning
  /\ handler' = [handler EXCEPT ![t].pc = "crashed"]
  /\ UNCHANGED <<clock, guildsCache, channelCache, displayNameCache, task, storedBy, readAt, unsweptAt,
                 lifeVars, dmConversationCounts>>

\* The steps of a handler after its first await, and of the fetch it awaits.
HandlerSteps(t) ==
  \/ TypingOk(t)
  \/ TypingFail(t)
  \/ (proc # "exited" /\ FetchSteps(t))
  \/ (proc # "exited" /\ FinishEphemeral(t))
  \/ FetchReturned(t)
  \/ FetchThrew(t)
  \/ InferOk(t)
  \/ InferFail(t)
  \/ ReplyOk(t)
  \/ ReplyFail(t)
  \/ CtaOk(t)
  \/ CtaFail(t)
  \/ ErrorOk(t)
  \/ ErrorFail(t)

\* ---- the process from main()'s call of initializeAllBots to its exit
\* The direct messages of u1 to bot2 in d1, handled one at a time.
BootTasks == {"t2"}
BootMessages(t) ==
  {[author |-> "u1", bot |-> FALSE, channel |-> "d1", mentioned |-> FALSE,
    content |-> <<"h", "i">>]}

\* main() has validated the environment and loaded the configs of Bots.
InitBoot ==
  /\ InitFetcher
  /\ InitStarted
  /\ guildsCache = Guilds
  /\ proc = "loaded"
  /\ activeBots = {}
  /\ dmConversationCounts = [k \in DmKeys |-> NoEntry]
  /\ initPromises = [b \in Bots |-> "none"]
  /\ successfulBots = << >>
  /\ shutdownPromises = [b \in Bots |-> "none"]
  /\ handler = [t \in Tasks |-> IdleHandler]

NextBoot ==
  \/ FirstTick
  \/ InitializeAllBots
  \/ \E b \in Bots : LoginOk(b) \/ LoginFail(b)
  \/ InitDone
  \/ Shutdown
  \/ \E b \in Bots : DestroyOk(b) \/ DestroyFail(b)
  \/ ShutdownDone
  \/ \E t \in BootTasks :
        \/ \E msg \in BootMessages(t) : Receive(t, msg, TRUE)
        \/ HandlerSteps(t)

SpecBoot == InitBoot /\ [][NextBoot]_vars

\* The bots whose login succeeded.
LoggedIn(promises) == {b \in Bots : promises[b] = "client"}

\* C21: initializeAllBots starts the login of every configured bot; a login
\* that fails settles that bot alone (the others stay pending, the process
\* goes on initializing); and when initializeAllBots returns, every login has
\* settled, the returned list holds exactly the clients whose login
\* succeeded, once each, and activeBots holds exactly their ids.
C21_IndependentInit ==
  [][/\ (proc = "loaded" /\ proc' # proc)
        => /\ proc' = "initializing"
           /\ \A b \in Bots : initPromises'[b] = "pending"
     /\ \A b \in Bots :
          (initPromises[b] = "pending" /\ initPromises'[b] = "null")
          => /\ proc' = "initializing"
             /\ activeBots' = activeBots
             /\ \A o \in Bots \ {b} : initPromises'[o] = initPromises[o]
     /\ (proc = "initializing" /\ proc' # proc)
        => /\ proc' = "running"
           /\ \A b \in Bots : initPromises[b] \in {"client", "null"}
           /\ {successfulBots'[i] : i \in DOMAIN successfulBots'} = LoggedIn(initPromises)
           /\ Len(successfulBots') = Cardinality(LoggedIn(initPromises))
           /\ activeBots' = LoggedIn(initPromises)
     /\ proc' = "running" => activeBots' = LoggedIn(initPromises')]_vars

\* bot1's login failed, and bot2 was initialized and is the one client returned.
C21_Witness ==
  /\ proc = "running"
  /\ initPromises["bot1"] = "null"
  /\ initPromises["bot2"] = "client"
  /\ successfulBots = <<"bot2">>
  /\ activeBots = {"bot2"}

\* C22: shutdownAllBots calls destroy on every client of activeBots; a destroy
\* that fails settles that client alone (the others stay as they were, the
\* shutdown goes on); and shutdownAllBots completes only when every destroy
\* has settled, leaving activeBots and dmConversationCounts empty.
C22_GracefulShutdown ==
  [][/\ (proc = "running" /\ proc' # proc)
        => /\ proc' = "shuttingDown"
           /\ \A b \in Bots :
                shutdownPromises'[b] = IF b \in activeBots THEN "pending" ELSE "none"
     /\ \A b \in Bots :
          (shutdownPromises[b] = "pending" /\ shutdownPromises'[b] = "failed")
          => /\ proc' = "shuttingDown"
             /\ \A o \in Bots \ {b} : shutdownPromises'[o] = shutdownPromises[o]
     /\ (proc = "shuttingDown" /\ proc' # proc)
        => /\ proc' = "exited"
           /\ \A b \in activeBots : shutdownPromises[b] \in {"destroyed", "failed"}
           /\ activeBots' = {}
           /\ \A k \in DmKeys : dmConversationCounts'[k] = NoEntry
     /\ proc' = "exited"
        => /\ activeBots' = {}
           /\ \A k \in DmKeys : dmConversationCounts'[k] = NoEntry]_vars

\* The process exited with both maps empty after bot1's destroy failed, bot2's
\* succeeded, and bot2 had counted a direct message.
C22_Witness ==
  /\ proc = "exited"
  /\ shutdownPromises["bot1"] = "failed"
  /\ shutdownPromises["bot2"] = "destroyed"
  /\ handler["t2"].dm /\ handler["t2"].newCount >= 1
  /\ activeBots = {}
  /\ \A k \in DmKeys : dmConversationCounts[k] = NoEntry

\* ---- one handler of bot2 and every kind of message
HandlerTasks == {"t2"}
HandlerMessages ==
  [author : {"u1"}, bot : BOOLEAN, channel : {"c2"}, mentioned : BOOLEAN,
   content : Contents]
  \cup [author : {"u1"}, bot : BOOLEAN, channel : {"d1"}, mentioned : {FALSE},
        content : {<<"h", "i">>}]

NextHandler ==
  \/ \E t \in HandlerTasks :
        \/ \E msg \in HandlerMessages, hasUser \in BOOLEAN : Receive(t, msg, hasUser)
        \/ HandlerSteps(t)

SpecHandler == Init /\ [][NextHandler]_vars

\* kind is among what the handler delivered.
Delivered(h, kind) == \E i \in DOMAIN h.sent : h.sent[i] = kind

\* C23: a handler whose conversation fetch or inference call failed sends the
\* error message (it is awaiting its delivery, or has delivered it, or the
\* delivery itself failed), and no handler delivers both the AI reply and the
\* error message.
C23_ErrorOrReply ==
  \A t \in Tasks :
    LET h == handler[t]
    IN /\ h.failed \in {"fetch", "infer"}
          => \/ h.pc = "error"
             \/ h.pc = "crashed"
             \/ h.pc = "done" /\ h.sent = <<"error">>
       /\ ~(Delivered(h, "reply") /\ Delivered(h, "error"))

\* ---- callKindroidAI
\* The HTTP status the inference service answers a rate-limited caller with.
TOO_MANY_REQUESTS == 429

\* The conversations passed in: none, one or two ConversationMessages.
Conversations ==
  {<< >>,
   <<[username |-> "handle1", text |-> "hi"]>>,
   <<[username |-> "handle1", text |-> "hi"], [username |-> "nick", text |-> "yo"]>>}

\* response.data.reply: missing, or a text as its words.
NoReply == <<"undefined">>
Replies == {NoReply, <<"hello">>, <<"hello", "@everyone">>, <<"@here", "you">>}
\* response.data.error: missing, or a message.
NoError == "undefined"
Errors == {NoError, "quota exceeded"}

\* How axios.post settles: "ok" resolves with a 2xx response and its body;
\* "status" rejects with an AxiosError carrying a response; "network" rejects
\* with an AxiosError without a response.
Responses ==
  [kind : {"ok"}, status : {200}, success : BOOLEAN, reply : Replies, error : Errors]
  \cup [kind : {"status"}, status : {TOO_MANY_REQUESTS, 500}, success : {FALSE},
        reply : {NoReply}, error : Errors]
  \cup [kind : {"network"}, status : {0}, success : {FALSE}, reply : {NoReply},
        error : {NoError}]

\* reply.replace(/@(everyone|here)/g, ""), word by word.
RECURSIVE StripMentions(_)
StripMentions(reply) ==
  IF reply = << >> THEN << >>
  ELSE (IF Head(reply) \in {"@everyone", "@here"} THEN << >> ELSE <<Head(reply)>>)
         \o StripMentions(Tail(reply))

Thrown(message) == [type |-> "error", message |-> message]
GenericFailure == Thrown("Failed to get response from Kindroid AI")

\* Variant: the error of the response body is looked at before the status.
CallKindroidAIBodyFirst(conversation, response) ==
  IF conversation = << >> THEN GenericFailure
  ELSE IF response.kind = "ok"
  THEN IF ~response.success \/ response.reply = NoReply THEN GenericFailure
       ELSE [type |-> "success", reply |-> StripMentions(response.reply)]
  ELSE IF response.kind = "status"
  THEN IF response.error # NoError THEN Thrown(response.error)
       ELSE IF response.status = TOO_MANY_REQUESTS THEN [type |-> "rate_limited"]
       ELSE GenericFailure
  ELSE GenericFailure

\* callKindroidAI(sharedAiCode, conversation, enableFilter) against one outcome
\* of axios.post. Whatever is thrown inside the try block (the empty
\* conversation, success = false, a reply that is no string) is caught by the
\* function's own catch block and, being no AxiosError, rethrown as the
\* generic failure.
CallKindroidAI(conversation, response) ==
  IF conversation = << >> THEN GenericFailure
  ELSE IF response.kind = "ok"
  THEN IF ~response.success \/ response.reply = NoReply THEN GenericFailure
       ELSE [type |-> "success", reply |-> StripMentions(response.reply)]
  ELSE IF response.kind = "status"
  THEN IF response.status = TOO_MANY_REQUESTS THEN [type |-> "rate_limited"]
       ELSE IF response.error # NoError THEN Thrown(response.error)
       ELSE GenericFailure
  ELSE GenericFailure

\* A caller about to call callKindroidAI, whatever the service will answer.
InitInference ==
  /\ InitFetcher
  /\ guildsCache = Guilds
  /\ InitRunning
  /\ env = RunningEnv
  /\ botConfigs = RunningConfigs
  /\ envExit = "passed"
  /\ aiCall \in [conversation : Conversations, response : Responses,
                  result : {[type |-> "none"]}]

\* The call settles.
Infer ==
  /\ aiCall.result.type = "none"
  /\ aiCall' = [aiCall EXCEPT !.result = CallKindroidAI(aiCall.conversation, aiCall.response)]
  /\ UNCHANGED <<clock, guildsCache, channelCache, displayNameCache, task, storedBy, readAt, unsweptAt,
                 proc, activeBots, dmConversationCounts, initPromises, successfulBots,
                 shutdownPromises, handler, env, botConfigs, envExit>>

NextInference == Infer

SpecInference == InitInference /\ [][NextInference]_vars

\* C24: callKindroidAI returns {type: "rate_limited"} exactly when the HTTP
\* call was made and failed with response status 429; it returns a result of
\* type "success" only when the response body has success = true; and every
\* other outcome (the empty conversation, success = false, another status, no
\* response at all) is thrown as an error.
C24_RateLimitedOnly429 ==
  LET conversation == aiCall.conversation
      response == aiCall.response
      result == aiCall.result
      limited == /\ conversation # << >>
                 /\ response.kind = "status"
                 /\ response.status = TOO_MANY_REQUESTS
  IN result.type # "none"
     => /\ result.type = "rate_limited" <=> limited
        /\ result.type = "success" => (response.kind = "ok" /\ response.success)
        /\ result.type \in {"rate_limited", "success", "error"}
        /\ (~limited /\ ~(response.kind = "ok" /\ response.success))
             => result.type = "error"

\* A 429 whose body carries an error message was returned as rate_limited.
C24_Witness ==
  /\ aiCall.result.type = "rate_limited"
  /\ aiCall.response.status = TOO_MANY_REQUESTS
  /\ aiCall.response.error # NoError

\* A display name that is no name: null or the empty string.
EmptyName(name) == name \in {NoName, ""}

\* C25: the handles being non-empty, every resolved display name is
\* non-empty, whichever path resolved it (cache hit, nickname, global name,
\* handle, failed lookup, guild missing from the cache): in the names of a
\* pass, in displayNameCache, and in the username of every ConversationMessage
\* returned or cached.
C25_NameNeverEmpty ==
  /\ \A u \in Users : ~EmptyName(Username(u))
  /\ \A t \in Tasks :
       /\ \A i \in DOMAIN task[t].names :
            task[t].names[i].via # "unresolved" => ~EmptyName(task[t].names[i].name)
       /\ \A i \in DOMAIN task[t].result : ~EmptyName(task[t].result[i].username)
  /\ \A k \in NameKeys :
       displayNameCache[k] # NoEntry => ~EmptyName(displayNameCache[k].displayName)
  /\ \A c \in Channels :
       channelCache[c] # NoEntry
       => \A i \in DOMAIN channelCache[c].messages :
            ~EmptyName(channelCache[c].messages[i].username)

\* u2, who has no global name, was named by the bare handle after a
\* membership lookup failed, and the handle was cached.
C25_Witness ==
  \E t \in Tasks :
    /\ task[t].pc = "done"
    /\ \E i \in DOMAIN task[t].result : task[t].result[i].username = Username("u2")
    /\ task[t].lookupFailed
    /\ displayNameCache[<<"g1", "u2">>] # NoEntry
    /\ displayNameCache[<<"g1", "u2">>].displayName = Username("u2")

\* The contents that contain "bob" in some casing.
NamingContents == {<<"h", "i", "b", "o", "b">>, <<"B", "O", "B">>}

\* The step started a handler invocation of task t.
Received(t) ==
  /\ handler[t].pc \in {"idle", "ignored", "done", "crashed"}
  /\ handler'[t].pc \in {"ignored", "typing"}

\* The invocation did nothing: no typing indicator, no conversation fetch,
\* no inference call, nothing sent.
Inert(h) ==
  /\ h.typings = 0 /\ h.fetches = 0 /\ h.inferences = 0
  /\ h.sent = << >>

\* C26: the handler returns at once, having issued no conversation fetch
\* and no inference call and sent nothing, for a message authored by a bot
\* and for a guild-channel message that neither mentions the bot nor contains
\* its username in any casing; for a direct message of a non-bot author it
\* proceeds to the direct-message path (the message is counted and the
\* typing indicator requested). A returned invocation stays inert.
C26_OnlyAddressed ==
  [][\A t \in Tasks :
       /\ Received(t)
          => LET msg == handler'[t].message
             IN /\ (msg.bot \/ (~IsDM(msg.channel) /\ ~msg.mentioned
                                  /\ msg.content \notin NamingContents))
                   => /\ handler'[t].pc = "ignored"
                      /\ Inert(handler'[t])
                      /\ task'[t] = task[t]
                      /\ dmConversationCounts' = dmConversationCounts
                      /\ channelCache' = channelCache
                /\ (~msg.bot /\ IsDM(msg.channel))
                   => /\ handler'[t].pc = "typing"
                      /\ handler'[t].dm
                      /\ dmConversationCounts'[<<BotOf(t), msg.author>>] # NoEntry
                      /\ dmConversationCounts'[<<BotOf(t), msg.author>>].count
                           = handler'[t].newCount
       /\ handler'[t].pc = "ignored" => Inert(handler'[t])]_vars

\* The handler returned on a human's guild message "Bo", which does not
\* name the bot, after it had taken a direct message.
C26_Witness ==
  /\ handler["t2"].pc = "ignored"
  /\ ~handler["t2"].message.bot
  /\ handler["t2"].message.channel = "c2"
  /\ ~handler["t2"].message.mentioned
  /\ handler["t2"].message.content = <<"B", "o">>
  /\ dmConversationCounts[<<"bot2", "u1">>] # NoEntry

\* ---- two handlers of bot2 taking the direct messages of one user, in a
\* process that is not shut down
DMTasks == {"t2", "t3"}
DMMessages ==
  {[author |-> "u1", bot |-> FALSE, channel |-> "d1", mentioned |-> FALSE,
    content |-> <<"h", "i">>]}

InitDM ==
  /\ InitFetcher
  /\ InitStarted
  /\ guildsCache = Guilds
  /\ InitRunning

NextDM ==
  \E t \in DMTasks :
    \/ \E msg \in DMMessages : Receive(t, msg, TRUE)
    \/ HandlerSteps(t)

SpecDM == InitDM /\ [][NextDM]_vars

\* The (bot, user) pair whose direct message handler t holds.
DmKeyOf(t) == <<BotOf(t), handler[t].message.author>>

\* t and u hold direct messages of one (bot, user) pair.
SamePair(t, u) ==
  /\ handler[t].dm /\ handler[u].dm
  /\ DmKeyOf(t) = DmKeyOf(u)

\* Handlers holding direct messages of one pair hold distinct counts, none
\* beyond the pair's stored count; a handler that is sending or has sent the
\* call-to-action holds count CTA_COUNT of a bot with an app link and has
\* delivered its reply.
CtaByCount ==
  \A t \in Tasks :
    LET h == handler[t]
    IN /\ h.dm => /\ dmConversationCounts[DmKeyOf(t)] # NoEntry
                     => h.newCount <= dmConversationCounts[DmKeyOf(t)].count
                  /\ \A u \in Tasks \ {t} :
                       SamePair(t, u) => h.newCount # handler[u].newCount
       /\ (h.pc = "cta" \/ Delivered(h, "cta"))
          => /\ h.dm
             /\ h.newCount = CTA_COUNT
             /\ HasAppLink(BotOf(t))
             /\ Delivered(h, "reply")

\* A received direct message is counted in the step that receives it: the
\* handler holds the stored count plus one and has stored it.
CountedOnReceipt ==
  \A t \in Tasks :
    (Received(t) /\ handler'[t].dm)
    => LET key == <<BotOf(t), handler'[t].message.author>>
           old == IF dmConversationCounts[key] = NoEntry THEN 0
                  ELSE dmConversationCounts[key].count
       IN /\ handler'[t].newCount = old + 1
          /\ dmConversationCounts'[key].count = old + 1

\* C27: a direct message is counted when it is received, before the handler
\* first suspends, so the handlers of one (bot, user) pair hold distinct
\* counts; the call-to-action is sent only by the handler whose count is
\* CTA_COUNT, for a bot with an app link, after its reply was delivered; and
\* once a handler has started sending it, no other handler of the pair ever
\* sends it, nor does that handler for a later message.
C27_CtaAtMostOnce ==
  /\ []CtaByCount
  /\ [][CountedOnReceipt]_vars
  /\ \A t \in DMTasks, u \in DMTasks :
       [](((handler[t].pc = "cta" \/ Delivered(handler[t], "cta"))
            /\ handler[t].newCount = CTA_COUNT)
          => [](handler[u].pc = "cta" \/ Delivered(handler[u], "cta")
                => (u = t /\ handler[u].newCount = CTA_COUNT)))

\* Two direct messages of u1 were in flight at once: the handler of the
\* second delivered reply and call-to-action, the handler of the first is
\* still waiting, and a third message has not arrived.
C27_Witness ==
  /\ handler["t3"].sent = <<"reply", "cta">>
  /\ handler["t3"].newCount = CTA_COUNT
  /\ handler["t2"].dm /\ handler["t2"].newCount = 1
  /\ handler["t2"].pc \in {"typing", "fetch", "infer", "reply"}

\* ---- validateEnv and loadBotConfigs
\* What process.env can hold for the variables main() reads.
EnvValues == {"unset", "empty", "set"}
Envs ==
  [url : EnvValues, key : EnvValues,
   aiId : [1..MaxIndex -> EnvValues], botToken : [1..MaxIndex -> EnvValues]]

\* !!process.env[name]: an unset variable and the empty string are falsy. No
\* variable is set beyond MaxIndex.
Truthy(value) == value = "set"
HasAiId(e, n) == n <= MaxIndex /\ Truthy(e.aiId[n])
HasBotToken(e, n) == n <= MaxIndex /\ Truthy(e.botToken[n])

\* Variant: an incomplete index is skipped and the loop goes on.
RECURSIVE ConfigsFromSkipping(_, _)
ConfigsFromSkipping(e, currentIndex) ==
  IF currentIndex > MaxIndex
  THEN << >>
  ELSE IF ~HasAiId(e, currentIndex) \/ ~HasBotToken(e, currentIndex)
  THEN ConfigsFromSkipping(e, currentIndex + 1)
  ELSE <<[id |-> <<"bot", currentIndex>>, index |-> currentIndex]>>
         \o ConfigsFromSkipping(e, currentIndex + 1)

\* The loop of loadBotConfigs from currentIndex on: it breaks at the first
\* index whose AI_ID_N or BOT_TOKEN_N is falsy.
RECURSIVE ConfigsFrom(_, _)
ConfigsFrom(e, currentIndex) ==
  IF ~HasAiId(e, currentIndex) \/ ~HasBotToken(e, currentIndex)
  THEN << >>
  ELSE <<[id |-> <<"bot", currentIndex>>, index |-> currentIndex]>>
         \o ConfigsFrom(e, currentIndex + 1)

\* The required variables that are missing.
MissingRequired(e) ==
  {name \in {"KINDROID_INFER_URL", "KINDROID_API_KEY", "AI_ID_1", "BOT_TOKEN_1"} :
     \/ name = "KINDROID_INFER_URL" /\ ~Truthy(e.url)
     \/ name = "KINDROID_API_KEY" /\ ~Truthy(e.key)
     \/ name = "AI_ID_1" /\ ~HasAiId(e, 1)
     \/ name = "BOT_TOKEN_1" /\ ~HasBotToken(e, 1)}

\* The pair loop of validateEnv from currentIndex on: TRUE when it reaches
\* process.exit(1).
RECURSIVE PairLoopExits(_, _)
PairLoopExits(e, currentIndex) ==
  IF ~HasAiId(e, currentIndex) /\ ~HasBotToken(e, currentIndex)
  THEN FALSE
  ELSE IF HasAiId(e, currentIndex) # HasBotToken(e, currentIndex)
  THEN TRUE
  ELSE PairLoopExits(e, currentIndex + 1)

\* main() calls validateEnv(): the process exits with status 1 when a
\* required variable is missing or the pair loop finds an incomplete pair.
ValidateEnv ==
  /\ proc = "starting"
  /\ IF MissingRequired(env) # {} \/ PairLoopExits(env, 1)
     THEN envExit' = "exit" /\ proc' = "exited"
     ELSE envExit' = "passed" /\ proc' = "validated"
  /\ UNCHANGED <<clock, guildsCache, channelCache, displayNameCache, task, storedBy, readAt, unsweptAt,
                 activeBots, dmConversationCounts, initPromises, successfulBots,
                 shutdownPromises, handler, aiCall, env, botConfigs>>

\* main() calls loadBotConfigs(), and exits when it returns no config.
LoadBotConfigs ==
  /\ proc = "validated"
  /\ botConfigs' = ConfigsFrom(env, 1)
  /\ proc' = IF Len(botConfigs') = 0 THEN "exited" ELSE "loaded"
  /\ UNCHANGED <<clock, guildsCache, channelCache, displayNameCache, task, storedBy, readAt, unsweptAt,
                 activeBots, dmConversationCounts, initPromises, successfulBots,
                 shutdownPromises, handler, aiCall, env, envExit>>

\* The process as main() starts, under any environment.
InitConfig ==
  /\ InitFetcher
  /\ guildsCache = Guilds
  /\ proc = "starting"
  /\ activeBots = {}
  /\ dmConversationCounts = [k \in DmKeys |-> NoEntry]
  /\ initPromises = [b \in Bots |-> "none"]
  /\ successfulBots = << >>
  /\ shutdownPromises = [b \in Bots |-> "none"]
  /\ handler = [t \in Tasks |-> IdleHandler]
  /\ aiCall = NoCall
  /\ env \in Envs
  /\ botConfigs = << >>
  /\ envExit = "pending"

NextConfig ==
  \/ ValidateEnv
  \/ LoadBotConfigs

SpecConfig == InitConfig /\ [][NextConfig]_vars

\* Both variables of index n are set (to a non-empty value).
PairSet(e, n) == e.aiId[n] = "set" /\ e.botToken[n] = "set"
\* Neither is.
PairUnset(e, n) == e.aiId[n] # "set" /\ e.botToken[n] # "set"

\* The length of the maximal prefix 1..k of indexes whose pairs are set.
PrefixLength(e) ==
  CHOOSE k \in 0..MaxIndex :
    /\ \A n \in 1..k : PairSet(e, n)
    /\ k < MaxIndex => ~PairSet(e, k + 1)

\* Before the first index with neither variable set, some index has exactly
\* one of the two.
HalfPairBeforeEnd(e) ==
  \E n \in 1..MaxIndex :
    /\ ~PairSet(e, n) /\ ~PairUnset(e, n)
    /\ \A m \in 1..(n - 1) : ~PairUnset(e, m)

\* C28: under every environment loadBotConfigs returns the configurations
\* bot1..botk, in index order, of the maximal prefix 1..k of indexes whose
\* AI_ID and BOT_TOKEN are both set, whatever is set after the first gap
\* (and main() holds exactly that list once it has loaded); validateEnv has
\* terminated the process whenever some index before the first one with
\* neither variable set has exactly one of the two.
C28_ContiguousPrefix ==
  LET expected == [n \in 1..PrefixLength(env) |-> [id |-> <<"bot", n>>, index |-> n]]
  IN /\ ConfigsFrom(env, 1) = expected
     /\ proc = "loaded" => botConfigs = expected
     /\ (proc # "starting" /\ HalfPairBeforeEnd(env))
        => envExit = "exit" /\ proc = "exited"

\* main() loaded bot1 alone from an environment whose index 2 is a gap and
\* whose index 3 is fully set.
C28_Witness ==
  /\ proc = "loaded"
  /\ Len(botConfigs) = 1
  /\ PairUnset(env, 2)
  /\ PairSet(env, 3)

\* validateEnv terminated the process on a half-set index 2.
C28_WitnessExit ==
  /\ envExit = "exit"
  /\ PairSet(env, 1)
  /\ env.aiId[2] = "set" /\ env.botToken[2] = "unset"

\* The step is the storing return of task t's call on channel c.
Stores(t, c) ==
  /\ task[t].pc = "format" /\ task[t].entry = "ephemeral"
  /\ task'[t].pc = "done"
  /\ task[t].channel = c
  /\ channelCache'[c] # NoEntry

\* The step replaces the entry of channel c by another.
Overwrites(c) ==
  /\ channelCache[c] # NoEntry
  /\ channelCache'[c] # NoEntry
  /\ \E t \in Tasks : Stores(t, c)

\* C29 as stated: every overwrite of a channel's entry stores a lastFetchTime
\* greater than or equal to the one it replaces.
C29_NeverDecreases ==
  [][\A c \in Channels :
       Overwrites(c)
       => channelCache'[c].lastFetchTime >= channelCache[c].lastFetchTime]_vars

\* C29, amended: every store writes the time the storing call read when it
\* started, which is not later than the time of the store; an overwrite
\* stores a lastFetchTime greater than or equal to the one it replaces when
\* the replaced entry is the one the call found when it started, and to the
\* start time of the call in every case.
C29_StoresStartTime ==
  [][\A c \in Channels, t \in Tasks :
       Stores(t, c)
       => /\ channelCache'[c].lastFetchTime = task[t].now
          /\ task[t].now <= clock
          /\ task[t].cachedAt <= task[t].now
          /\ (channelCache[c] # NoEntry
              /\ channelCache[c].lastFetchTime = task[t].cachedAt)
             => channelCache'[c].lastFetchTime >= channelCache[c].lastFetchTime]_vars

\* The call of t2 started at time 1, fetched and stored; the call of t1, which
\* had started at time 0 and was still in flight, then stored over it: the
\* entry of c2 is stamped 0.
C29_Witness ==
  /\ task["t2"].pc = "done" /\ task["t2"].entry = "ephemeral"
  /\ task["t2"].channel = "c2" /\ task["t2"].historyFetches = 1
  /\ task["t2"].now = 1
  /\ task["t1"].pc = "done" /\ task["t1"].entry = "ephemeral"
  /\ task["t1"].channel = "c2" /\ task["t1"].historyFetches = 1
  /\ task["t1"].now = 0
  /\ channelCache["c2"] # NoEntry
  /\ channelCache["c2"].lastFetchTime = 0
  /\ storedBy["c2"] = "bot1"

\* Every entry was produced by an upstream read that resolved no earlier than
\* the entry's lastFetchTime.
StampedBeforeRead ==
  \A c \in Channels :
    channelCache[c] # NoEntry
    => /\ readAt[c] # NoTime
       /\ channelCache[c].lastFetchTime <= readAt[c]

\* A call served from the cache at the clock with ttl returns the messages of
\* the channel's entry, whose upstream read resolved later than clock - ttl.
ServedWithinWindow ==
  \A t \in Tasks :
    ServedFromCache(t)
    => LET c == task'[t].channel
       IN /\ channelCache[c] # NoEntry
          /\ task'[t].result = channelCache[c].messages
          /\ readAt[c] > clock - task'[t].ttl

\* C30: every sequence ephemeralFetchConversation serves from the cache at
\* time t with ttl was obtained by a channel.messages.fetch that resolved
\* later than t - ttl, and the lastFetchTime of an entry is never later than
\* the time at which the channel.messages.fetch that produced it resolved.
C30_StalenessBound ==
  /\ []StampedBeforeRead
  /\ [][ServedWithinWindow]_vars

\* A call at time 2 with ttl 2 was served the entry of c2 stamped 1, whose
\* upstream read resolved at 2.
C30_Witness ==
  /\ clock = 2
  /\ task["t1"].pc = "done" /\ task["t1"].entry = "ephemeral"
  /\ task["t1"].channel = "c2" /\ task["t1"].now = 2 /\ task["t1"].ttl = 2
  /\ task["t1"].historyFetches = 0
  /\ task["t1"].cachedAt = 1
  /\ channelCache["c2"] # NoEntry
  /\ channelCache["c2"].lastFetchTime = 1
  /\ readAt["c2"] = 2

\* ---- two direct messages of u1 to bot2 and the history the handlers read
\* The handler of t2 is triggered by the Message d1-m1 and the handler of t3
\* by d1-m2, which is created after it; id names the Message object.
ContextTasks == {"t2", "t3"}
ContextMessage(t) ==
  [author |-> "u1", bot |-> FALSE, channel |-> "d1", mentioned |-> FALSE,
   content |-> <<"h", "i">>, id |-> IF t = "t2" THEN "d1-m1" ELSE "d1-m2"]

\* The messages channel c holds when the events delivered so far have been
\* created: a messageCreate event follows the creation of its message.
Posted(c) ==
  {m \in ChannelMessages(c) :
     \E t \in ContextTasks : handler[t].pc # "idle" /\ handler[t].message.id = m.id}

\* The limit most recent messages of channel c.
MostRecent(c, limit) ==
  {m \in Posted(c) :
     Cardinality({o \in Posted(c) : o.createdTimestamp > m.createdTimestamp}) < limit}

\* What channel.messages.fetch({limit}) resolves to: the limit most recent
\* messages, in any order.
RecentBatches(c, limit) ==
  {b \in SeqsNoRep(MostRecent(c, limit), limit) : Len(b) = Cardinality(MostRecent(c, limit))}

\* The messageCreate event of the trigger of t, delivered once, d1-m1 first.
ReceiveTrigger(t) ==
  /\ handler[t].pc = "idle"
  /\ t = "t3" => handler["t2"].pc # "idle"
  /\ Receive(t, ContextMessage(t), TRUE)

\* The steps of a handler after its first await, reading the history above.
ContextSteps(t) ==
  \/ TypingOk(t)
  \/ TypingFail(t)
  \/ (proc # "exited" /\ FetchFail(t))
  \/ (proc # "exited"
      /\ \E batch \in RecentBatches(task[t].channel, task[t].limit) : FetchOk(t, batch))
  \/ (proc # "exited" /\ ResolveStart(t))
  \/ (proc # "exited" /\ StartFormat(t))
  \/ (proc # "exited" /\ FinishEphemeral(t))
  \/ FetchReturned(t)
  \/ FetchThrew(t)
  \/ InferOk(t)
  \/ InferFail(t)
  \/ ReplyOk(t)
  \/ ReplyFail(t)
  \/ CtaOk(t)
  \/ CtaFail(t)
  \/ ErrorOk(t)
  \/ ErrorFail(t)

NextContext ==
  \/ FirstTick
  \/ \E t \in ContextTasks :
        \/ ReceiveTrigger(t)
        \/ ContextSteps(t)

SpecContext == InitDM /\ [][NextContext]_vars

\* The conversation holds the ConversationMessage made from message id.
Contains(conversation, id) ==
  \E i \in DOMAIN conversation : conversation[i].text = id

\* The handler of t called callKindroidAI with its conversationArray.
CalledInference(t) == handler[t].inferences >= 1

EvictChannels == {"c2", "d1"}
EvictLimits == {1}
EvictDurations == {1, 3}

NextEvict ==
  \/ Tick
  \/ \E t \in EphemeralTasks :
        \/ \E c \in EvictChannels, limit \in EvictLimits, ttl \in EvictDurations :
              CallEphemeral(t, c, limit, ttl)
        \/ FetchSteps(t)
        \/ FinishEphemeral(t)

SpecEvict == Init /\ [][NextEvict]_vars

\* A cache that never sweeps would serve a call for c with ttl at the clock.
UnsweptFresh(c, ttl) ==
  /\ unsweptAt[c] # NoTime
  /\ clock - unsweptAt[c] < ttl

\* The step is a call of ephemeralFetchConversation by t.
CalledEphemeral(t) == Called(t) /\ task'[t].entry = "ephemeral"

\* C32 as stated: every call is a hit exactly when it would be one in a
\* cache that never sweeps.
C32_EvictionInvisible ==
  [][\A t \in Tasks :
       CalledEphemeral(t)
       => (ServedFromCache(t) <=> UnsweptFresh(task'[t].channel, task'[t].ttl))]_vars

\* The storing return of t deletes the entry of channel k in its sweep.
Evicts(t, k) ==
  /\ Stored(t)
  /\ channelCache[k] # NoEntry
  /\ channelCache'[k] = NoEntry

\* The shortest cacheDurationMs any caller passes.
ShortestDuration == CHOOSE d \in EvictDurations : \A e \in EvictDurations : d <= e

\* C32, amended: a call served from the cache is served the entry a cache
\* that never sweeps would serve; a sweep deletes only entries of other
\* channels that no call from then on with a cacheDurationMs up to the
\* sweeping call's would be served; and a call that misses where a cache that
\* never sweeps would hit passes a cacheDurationMs longer than the shortest
\* one in use.
C32_EvictionWithinWindow ==
  [][\A t \in Tasks :
       /\ (CalledEphemeral(t) /\ ServedFromCache(t))
          => /\ UnsweptFresh(task'[t].channel, task'[t].ttl)
             /\ channelCache[task'[t].channel].lastFetchTime = unsweptAt[task'[t].channel]
       /\ (CalledEphemeral(t) /\ ~ServedFromCache(t)
             /\ UnsweptFresh(task'[t].channel, task'[t].ttl))
          => /\ channelCache[task'[t].channel] = NoEntry
             /\ task'[t].ttl > ShortestDuration
       /\ \A k \in Channels :
            Evicts(t, k)
            => /\ k # task[t].channel
               /\ \A ttl \in 1..task[t].ttl : ~Fresh(channelCache[k], clock, ttl)]_vars

\* The entry of d1, stored at time 0, was deleted by a sweep; the call for d1
\* at time 2 with cacheDurationMs 3 fetches, where a cache that never sweeps
\* would have served it.
C32_Witness ==
  /\ clock = 2
  /\ task["t1"].pc = "fetching" /\ task["t1"].entry = "ephemeral"
  /\ task["t1"].channel = "d1" /\ task["t1"].ttl = 3 /\ task["t1"].now = 2
  /\ task["t1"].cachedAt = NoTime
  /\ channelCache["d1"] = NoEntry
  /\ unsweptAt["d1"] = 0

\* The author of the message of channel c a ConversationMessage was made from.
AuthorOf(c, cm) == (CHOOSE m \in ChannelMessages(c) : m.content = cm.text).author

\* C33 as stated: in every sequence fetchConversationFromDiscord returns, the
\* messages of one author carry one username.
C33_OneNamePerAuthor ==
  \A t \in Tasks :
    (task[t].pc = "done" /\ task[t].entry = "direct")
    => \A i, j \in DOMAIN task[t].result :
         AuthorOf(task[t].channel, task[t].result[i])
           = AuthorOf(task[t].channel, task[t].result[j])
         => task[t].result[i].username = task[t].result[j].username

====
